---- MODULE Spec2Model ----
(***************************************************************************)
(* State-machine model of the EcoCoin frontend services:                   *)
(*   - the Firestore transaction store (lib/database.ts),                  *)
(*   - BlockchainVerificationService (timer-backed verification jobs),     *)
(*   - RealBlockchainService (WebSocket client, reconnect, cached state).  *)
(* Times are in milliseconds.  Firestore is modelled as a reliable store:  *)
(* a single-document write is atomic and runTransaction is atomic and      *)
(* commits only when its update function returns normally.                 *)
(***************************************************************************)
EXTENDS Integers, Sequences, FiniteSets, TLC

----------------------------------------------------------------------------
(* Bounds of the model *)

\* Spec: transaction documents created, verification timers started
MaxTx == 1
MaxJobs == 3
\* SpecStore: the same, for the store's status machine
MaxStoreTx == 1
MaxStoreJobs == 1
\* SpecBalance: the same, for the balances under any amounts
MaxBalanceTx == 1
MaxBalanceJobs == 1
\* SpecLive: the same, for the behaviours checked under fairness
MaxLiveTx == 1
MaxLiveJobs == 2
\* SpecStatus: transaction documents created, verification timers started
MaxStatusTx == 1
MaxStatusJobs == 1
\* SpecValidate: transaction documents created
MaxValidateTx == 1

\* SpecChain: requests made of the page
MaxRequests == 5
\* SpecLedger: requests made of the page
MaxLedgerRequests == 5
\* SpecSubmit: transaction documents created
MaxSubmitTx == 2
\* SpecClient: sockets created, listeners registered, getState calls in flight
MaxSockets == 7
MaxListeners == 1
MaxPolls == 1
\* SpecSnap: the same, for the cached state
MaxSnapSockets == 2
MaxSnapListeners == 1
MaxSnapPolls == 1
\* SpecReq: the same, for the requests to the backend
MaxReqSockets == 1
MaxReqListeners == 1
MaxReqPolls == 1
\* SpecBus: sockets created, listeners registered, for the dispatch of events
MaxBusSockets == 2
MaxBusListeners == 2
\* SpecDispatch: the same, with a listener that unsubscribes itself
MaxDispatchSockets == 2
MaxDispatchListeners == 2
\* SpecPoll: rounds of the backend, getState calls made
MaxRounds == 3
MaxPollCalls == 2

----------------------------------------------------------------------------
(* Program constants *)

VERIFICATION_DELAY == 30000
DefaultEcoCoins == 100

\* one clock step; ages from the delay on all read the same (progress 100,
\* timeRemaining 0), so an age is counted up to the delay
TickMs == VERIFICATION_DELAY
\* the clock step of SpecStatus
StatusTickMs == 10000
AgeCap == VERIFICATION_DELAY

Users == {"u1", "u2"}
\* a uid / an email that no user document has
NoUser == "nobody"
\* amounts callers pass in a TransactionRequest
Amounts == {60, 150}
\* a transaction id that no document has
NoTx == 0

Min(a, b) == IF a < b THEN a ELSE b
Max(a, b) == IF a > b THEN a ELSE b

VARIABLES
  transactions,      \* Firestore 'transactions': sequence, document id = index
  ecoCoins,          \* Firestore 'users': uid -> ecoCoins
  verificationJobs,  \* Map transactionId -> [timeoutId, age]; age = Date.now() - startTime
  timers,            \* pending expiry timers: set of [timeoutId, tx, left]
  awaiting,          \* expiry callbacks suspended in `await completeTransaction`
  nextTimer,         \* next setTimeout handle
  cancelled,         \* history: timeoutIds of the jobs for which cancel returned true
  completedBy,       \* history: timeoutIds whose expiry marked the transaction completed
  finished,          \* history: timeoutIds whose expiry callback ran to its end
  lastOp             \* the last operation and what it returned

txVars == <<transactions, ecoCoins, verificationJobs, timers, awaiting, nextTimer,
            cancelled, completedBy, finished, lastOp>>

VARIABLES
  submission,        \* the sendEcoCoins call in flight: <<>> is none
  completions        \* transaction ids whose 1000 ms completion timer is pending

submitVars == <<submission, completions>>

VARIABLES
  validation         \* the last validateTransactionRequest call: <<>> is none

\* the state of CryptoLabPage
VARIABLES
  blocks,            \* the chain: a sequence of blocks
  labTransactions,   \* the input transactions A, B, C: id -> enabled
  policy,            \* the policy window: center and width
  sequence,
  status,            \* 'idle', 'compute', 'verify' or 'append'
  toastMessage,      \* <<>> is null
  rendered,          \* the closure of the handlers of the last committed render
  flows,             \* the calls of handleAddBlock and handleVerifyChain in an await
  requests,          \* the requests made of the page so far
  chainOp            \* the operation on the chain that the last step made

pageVars == <<blocks, labTransactions, policy, sequence, status, toastMessage, rendered,
              flows, requests, chainOp>>

\* the variables that the services above do not touch
VARIABLES
  windowCheck        \* the last isValidDigest call: <<>> is none

\* the backend that the client talks to, as the client sees it
VARIABLES
  server,            \* the round (and block height) that the backend is in
  wire,              \* the rounds of the state events sent and not yet received
  answers            \* the rounds of the GET /state responses not yet delivered

backendVars == <<server, wire, answers>>

otherVars == <<validation, pageVars, windowCheck, backendVars>>

Op(op, id, ret) == [op |-> op, id |-> id, ret |-> ret]

TxIds == 1..Len(transactions)
\* history: timeoutIds of the jobs started
started == 1..(nextTimer - 1)
HasJob(id) == id \in DOMAIN verificationJobs
MapDelete(m, k) == [x \in DOMAIN m \ {k} |-> m[x]]
MapSet(m, k, v) == [x \in DOMAIN m \cup {k} |-> IF x = k THEN v ELSE m[x]]

----------------------------------------------------------------------------
(* lib/database.ts *)

\* getUserByEmail: emails are identified with uids; null is NoUser
getUserByEmail(email) == IF email \in Users THEN email ELSE NoUser

createTransaction(fromUserId, toUserEmail, amount) ==
  LET recipient == getUserByEmail(toUserEmail) IN
  \/ /\ recipient = NoUser
     /\ lastOp' = Op("createTransaction", NoTx, "Recipient user not found")
     /\ UNCHANGED <<transactions, ecoCoins>>
  \/ /\ recipient # NoUser
     /\ recipient = fromUserId
     /\ lastOp' = Op("createTransaction", NoTx, "Cannot send coins to yourself")
     /\ UNCHANGED <<transactions, ecoCoins>>
  \/ /\ recipient # NoUser
     /\ recipient # fromUserId
     /\ transactions' = Append(transactions,
                          [fromUserId |-> fromUserId, toUserId |-> recipient,
                           amount |-> amount, status |-> "pending"])
     /\ lastOp' = Op("createTransaction", Len(transactions) + 1, "ok")
     /\ UNCHANGED ecoCoins

\* processTransaction without its check of the status
processTransactionMissingGuard(id) ==
  /\ id \in TxIds
  /\ transactions[id].fromUserId \in Users
  /\ ecoCoins[transactions[id].fromUserId] >= transactions[id].amount
  /\ ecoCoins' = [u \in Users |->
        ecoCoins[u]
        - (IF u = transactions[id].fromUserId THEN transactions[id].amount ELSE 0)
        + (IF u = transactions[id].toUserId THEN transactions[id].amount ELSE 0)]
  /\ transactions' = [transactions EXCEPT ![id].status = "verifying"]
  /\ lastOp' = Op("processTransaction", id, "ok")

\* processTransaction refusing a failed transaction only
processTransactionRepeats(id) ==
  \/ /\ id \notin TxIds
     /\ lastOp' = Op("processTransaction", id, "Transaction not found")
     /\ UNCHANGED <<transactions, ecoCoins>>
  \/ /\ id \in TxIds
     /\ transactions[id].status = "failed"
     /\ lastOp' = Op("processTransaction", id, "Transaction is not pending")
     /\ UNCHANGED <<transactions, ecoCoins>>
  \/ /\ id \in TxIds
     /\ transactions[id].status # "failed"
     /\ transactions[id].fromUserId \notin Users
     /\ lastOp' = Op("processTransaction", id, "User not found")
     /\ UNCHANGED <<transactions, ecoCoins>>
  \/ /\ id \in TxIds
     /\ transactions[id].status # "failed"
     /\ transactions[id].fromUserId \in Users
     /\ ecoCoins[transactions[id].fromUserId] < transactions[id].amount
     /\ lastOp' = Op("processTransaction", id, "Insufficient balance")
     /\ UNCHANGED <<transactions, ecoCoins>>
  \/ /\ id \in TxIds
     /\ transactions[id].status # "failed"
     /\ transactions[id].fromUserId \in Users
     /\ ecoCoins[transactions[id].fromUserId] >= transactions[id].amount
     /\ ecoCoins' = [u \in Users |->
           ecoCoins[u]
           - (IF u = transactions[id].fromUserId THEN transactions[id].amount ELSE 0)
           + (IF u = transactions[id].toUserId THEN transactions[id].amount ELSE 0)]
     /\ transactions' = [transactions EXCEPT ![id].status = "verifying"]
     /\ lastOp' = Op("processTransaction", id, "ok")

\* the update function of runTransaction; a throw aborts the Firestore
\* transaction, so the buffered update to 'failed' is never committed
processTransaction(id) ==
  \/ /\ id \notin TxIds
     /\ lastOp' = Op("processTransaction", id, "Transaction not found")
     /\ UNCHANGED <<transactions, ecoCoins>>
  \/ /\ id \in TxIds
     /\ transactions[id].status # "pending"
     /\ lastOp' = Op("processTransaction", id, "Transaction is not pending")
     /\ UNCHANGED <<transactions, ecoCoins>>
  \/ /\ id \in TxIds
     /\ transactions[id].status = "pending"
     /\ transactions[id].fromUserId \notin Users
     /\ lastOp' = Op("processTransaction", id, "User not found")
     /\ UNCHANGED <<transactions, ecoCoins>>
  \/ /\ id \in TxIds
     /\ transactions[id].status = "pending"
     /\ transactions[id].fromUserId \in Users
     /\ ecoCoins[transactions[id].fromUserId] < transactions[id].amount
     /\ lastOp' = Op("processTransaction", id, "Insufficient balance")
     /\ UNCHANGED <<transactions, ecoCoins>>
  \/ /\ id \in TxIds
     /\ transactions[id].status = "pending"
     /\ transactions[id].fromUserId \in Users
     /\ ecoCoins[transactions[id].fromUserId] >= transactions[id].amount
     /\ ecoCoins' = [u \in Users |->
           ecoCoins[u]
           - (IF u = transactions[id].fromUserId THEN transactions[id].amount ELSE 0)
           + (IF u = transactions[id].toUserId THEN transactions[id].amount ELSE 0)]
     /\ transactions' = [transactions EXCEPT ![id].status = "verifying"]
     /\ lastOp' = Op("processTransaction", id, "ok")

\* updateDoc(status: 'completed'); fails (caught, logged) when the document is missing
updateCompleted(id) ==
  IF id \in TxIds THEN [transactions EXCEPT ![id].status = "completed"]
  ELSE transactions

completeTransaction(id) ==
  /\ transactions' = updateCompleted(id)
  /\ lastOp' = Op("completeTransaction", id, IF id \in TxIds THEN "ok" ELSE "logged")
  /\ UNCHANGED ecoCoins

----------------------------------------------------------------------------
(* BlockchainVerificationService *)

initiateVerification(id) ==
  \/ /\ HasJob(id)
     /\ lastOp' = Op("initiateVerification", id, "Transaction is already being verified")
     /\ UNCHANGED <<verificationJobs, timers, nextTimer>>
  \/ /\ ~HasJob(id)
     /\ timers' = timers \cup {[timeoutId |-> nextTimer, tx |-> id, left |-> VERIFICATION_DELAY]}
     /\ verificationJobs' = MapSet(verificationJobs, id, [timeoutId |-> nextTimer, age |-> 0])
     /\ nextTimer' = nextTimer + 1
     /\ lastOp' = Op("initiateVerification", id, "started")

\* the timer fires: the callback runs up to `await completeTransaction(...)`,
\* which has issued its updateDoc
expiryFire(t) ==
  /\ t \in timers
  /\ t.left = 0
  /\ timers' = timers \ {t}
  /\ awaiting' = awaiting \cup {[timeoutId |-> t.timeoutId, tx |-> t.tx, settled |-> FALSE]}
  /\ lastOp' = Op("step", NoTx, "")

\* the updateDoc of the suspended callback takes effect in the store
expiryWrite(c) ==
  /\ c \in awaiting
  /\ ~c.settled
  /\ transactions' = updateCompleted(c.tx)
  /\ completedBy' = IF c.tx \in TxIds THEN completedBy \cup {c.timeoutId} ELSE completedBy
  /\ awaiting' = (awaiting \ {c}) \cup {[c EXCEPT !.settled = TRUE]}
  /\ lastOp' = Op("step", NoTx, "")

\* expiryResume without its verificationJobs.delete
expiryResumeKeepsJob(c) ==
  /\ c \in awaiting
  /\ c.settled
  /\ UNCHANGED verificationJobs
  /\ awaiting' = awaiting \ {c}
  /\ finished' = finished \cup {c.timeoutId}
  /\ lastOp' = Op("expiryDone", c.tx, "resolved")

\* the callback resumes after the await: verificationJobs.delete; resolve()
expiryResume(c) ==
  /\ c \in awaiting
  /\ c.settled
  /\ verificationJobs' = MapDelete(verificationJobs, c.tx)
  /\ awaiting' = awaiting \ {c}
  /\ finished' = finished \cup {c.timeoutId}
  /\ lastOp' = Op("expiryDone", c.tx, "resolved")

cancelVerification(id) ==
  \/ /\ ~HasJob(id)
     /\ lastOp' = Op("cancelVerification", id, "false")
     /\ UNCHANGED <<verificationJobs, timers, cancelled>>
  \/ /\ HasJob(id)
     /\ timers' = {t \in timers : t.timeoutId # verificationJobs[id].timeoutId}
     /\ verificationJobs' = MapDelete(verificationJobs, id)
     /\ cancelled' = cancelled \cup {verificationJobs[id].timeoutId}
     /\ lastOp' = Op("cancelVerification", id, "true")

\* time passes by ms; ages are counted up to cap
TickBy(ms, cap) ==
  /\ timers' = {[t EXCEPT !.left = Max(t.left - ms, 0)] : t \in timers}
  /\ verificationJobs' = [id \in DOMAIN verificationJobs |->
        [verificationJobs[id] EXCEPT !.age = Min(@ + ms, cap)]]
  /\ <<timers', verificationJobs'>> # <<timers, verificationJobs>>
  /\ lastOp' = Op("step", NoTx, "")

\* time passes by one clock step
Tick == TickBy(TickMs, AgeCap)

\* getVerificationStatus without the Math.min and Math.max
getVerificationStatusUnclamped(id) ==
  /\ lastOp' = Op("getVerificationStatus", id,
        IF ~HasJob(id)
          THEN [isVerifying |-> FALSE, progress |-> 0, timeRemaining |-> 0]
          ELSE [isVerifying |-> TRUE,
                progress |-> (verificationJobs[id].age * 100) \div VERIFICATION_DELAY,
                timeRemaining |-> VERIFICATION_DELAY - verificationJobs[id].age])
  /\ UNCHANGED <<verificationJobs, timers>>

\* getVerificationStatus; elapsed is the job's age, progress is held in
\* whole percent
getVerificationStatus(id) ==
  /\ lastOp' = Op("getVerificationStatus", id,
        IF ~HasJob(id)
          THEN [isVerifying |-> FALSE, progress |-> 0, timeRemaining |-> 0]
          ELSE [isVerifying |-> TRUE,
                progress |-> Min((verificationJobs[id].age * 100) \div VERIFICATION_DELAY, 100),
                timeRemaining |-> Max(VERIFICATION_DELAY - verificationJobs[id].age, 0)])
  /\ UNCHANGED <<verificationJobs, timers>>

----------------------------------------------------------------------------

InitTx ==
  /\ submission = <<>>
  /\ completions = {}
  /\ transactions = <<>>
  /\ ecoCoins = [u \in Users |-> DefaultEcoCoins]
  /\ verificationJobs = <<>>
  /\ timers = {}
  /\ awaiting = {}
  /\ nextTimer = 1
  /\ cancelled = {}
  /\ completedBy = {}
  /\ finished = {}
  /\ lastOp = Op("init", NoTx, "")

----------------------------------------------------------------------------
(* RealBlockchainService *)

maxReconnectAttempts == 5
reconnectDelay == 1000
\* threshold is held in thousandths: 0.6 is 600
DefaultThreshold == 600

VARIABLES
  sockets,            \* the WebSockets created, by handle: their readyState
  wsConnection,       \* handle of the socket the service holds; 0 is null
  reconnectAttempts,
  reconnectTimers,    \* pending reconnect timers: their delays
  eventListeners,     \* Map eventType -> array of callbacks; a type that is no key
                      \* of the Map has the empty array, which reads the same
  currentState,       \* <<>> is null, <<s>> is the cached BlockchainState s
  polls,              \* getState calls whose fetch is in flight
  scheduled,          \* history: delays of the reconnects scheduled since the last open
  dispatched,         \* history: <<eventType, callback>> calls of the last handler
  prevState,          \* history: the cache before the last message or poll result
  clientOp            \* the last handler or call, its input and what it returned

clientVars == <<sockets, wsConnection, reconnectAttempts, reconnectTimers, eventListeners,
                currentState, polls, scheduled, dispatched, prevState, clientOp>>

COp(op, arg, ret) == [op |-> op, arg |-> arg, ret |-> ret]

\* callbacks that callers register; BadCallback throws when it is called
BadCallback == "thrower"
Callbacks == {"handler", BadCallback}
\* OnceCallback calls removeEventListener on itself when it is called
OnceCallback == "once"
ListenerTypes == {"state", "commit", "connection", "all"}

\* texts received on the socket or as the body of GET /state
RawFull == "{type:state,round:1,leader:1,blockHeight:1,balances:{Alice:5},mempool:[{Alice,Bob,2}],ports:[COM3],threshold:0.7}"
RawNoMempool == "{type:state,round:2,leader:2,blockHeight:2,balances:{Bob:7},ports:[COM4],threshold:0.8}"
RawBare == "{type:state}"
RawZero == "{type:state,round:0,mempool:[]}"
RawCommit == "{type:commit,round:1,leader:1}"
RawGarbage == "not json"
RawUnknown == "{type:bogus,round:1}"
RawNoType == "{round:1}"
BodyFull == "{round:3,leader:1,blockHeight:3,balances:{Alice:3},mempool:[],ports:[COM3],threshold:0.6}"
BodyPartial == "{round:4}"
\* the state event and the body of GET /state of a backend in round 1, 2, ...
StateMessages ==
  <<"{type:state,round:1,leader:1,blockHeight:1,balances:{},mempool:[],ports:[],threshold:0.7}",
    "{type:state,round:2,leader:1,blockHeight:2,balances:{},mempool:[],ports:[],threshold:0.7}",
    "{type:state,round:3,leader:1,blockHeight:3,balances:{},mempool:[],ports:[],threshold:0.7}",
    "{type:state,round:4,leader:1,blockHeight:4,balances:{},mempool:[],ports:[],threshold:0.7}">>
StateBodies ==
  <<"{round:1,leader:1,blockHeight:1,balances:{},mempool:[],ports:[],threshold:0.7}",
    "{round:2,leader:1,blockHeight:2,balances:{},mempool:[],ports:[],threshold:0.7}",
    "{round:3,leader:1,blockHeight:3,balances:{},mempool:[],ports:[],threshold:0.7}",
    "{round:4,leader:1,blockHeight:4,balances:{},mempool:[],ports:[],threshold:0.7}">>
RoundOf(texts, raw) == CHOOSE r \in 1..Len(texts) : texts[r] = raw

\* JSON.parse / response.json(): <<v>> is the value v, <<>> is a SyntaxError
JSONparse(raw) ==
  CASE raw = RawFull ->
         <<[type |-> "state", round |-> 1, leader |-> 1, blockHeight |-> 1,
            balances |-> {<<"Alice", 5>>},
            mempool |-> <<[from_addr |-> "Alice", to |-> "Bob", amt |-> 2]>>,
            ports |-> <<"COM3">>, threshold |-> 700]>>
    [] raw = RawNoMempool ->
         <<[type |-> "state", round |-> 2, leader |-> 2, blockHeight |-> 2,
            balances |-> {<<"Bob", 7>>}, ports |-> <<"COM4">>, threshold |-> 800]>>
    [] raw = RawBare -> <<[type |-> "state"]>>
    [] raw = RawZero -> <<[type |-> "state", round |-> 0, mempool |-> <<>>]>>
    [] raw = RawCommit -> <<[type |-> "commit", round |-> 1, leader |-> 1]>>
    [] raw = RawUnknown -> <<[type |-> "bogus", round |-> 1]>>
    [] raw = RawNoType -> <<[round |-> 1]>>
    [] raw = BodyFull ->
         <<[round |-> 3, leader |-> 1, blockHeight |-> 3, balances |-> {<<"Alice", 3>>},
            mempool |-> <<>>, ports |-> <<"COM3">>, threshold |-> 600]>>
    [] raw = BodyPartial -> <<[round |-> 4]>>
    [] \E r \in 1..Len(StateMessages) : StateMessages[r] = raw ->
         <<[type |-> "state", round |-> RoundOf(StateMessages, raw), leader |-> 1,
            blockHeight |-> RoundOf(StateMessages, raw), balances |-> {},
            mempool |-> <<>>, ports |-> <<>>, threshold |-> 700]>>
    [] \E r \in 1..Len(StateBodies) : StateBodies[r] = raw ->
         <<[round |-> RoundOf(StateBodies, raw), leader |-> 1,
            blockHeight |-> RoundOf(StateBodies, raw), balances |-> {},
            mempool |-> <<>>, ports |-> <<>>, threshold |-> 700]>>
    [] OTHER -> <<>>

\* `event.f || d` for a number: a missing or zero f gives d
OrNumber(event, f, d) == IF f \in DOMAIN event /\ event[f] # 0 THEN event[f] ELSE d
\* `event.f || d` for an object or array: a missing f gives d
OrObject(event, f, d) == IF f \in DOMAIN event THEN event[f] ELSE d

Listeners(eventType) ==
  IF eventType \in DOMAIN eventListeners THEN eventListeners[eventType] ELSE <<>>
NoListeners == [t \in ListenerTypes |-> <<>>]

Remove(list, i) == [j \in 1..(Len(list) - 1) |-> IF j < i THEN list[j] ELSE list[j + 1]]

\* listeners.indexOf(callback), from 1; 0 when there is none
indexOf(list, callback) ==
  IF \E i \in 1..Len(list) : list[i] = callback
    THEN CHOOSE i \in 1..Len(list) : list[i] = callback /\ \A j \in 1..(i - 1) : list[j] # callback
    ELSE 0

\* listeners.forEach(callback => callback(event)) from index k on: forEach
\* visits the indices below the length the array had when it started, reads
\* the array as it is at each visit, and passes over an index the array no
\* longer has; a callback that throws ends it. OnceCallback splices itself
\* out of the array that is being visited.
RECURSIVE forEach(_, _, _, _, _)
forEach(map, eventType, k, len, calls) ==
  LET list == map[eventType] IN
  IF k > len THEN [listeners |-> map, calls |-> calls, threw |-> FALSE]
  ELSE IF k > Len(list) THEN forEach(map, eventType, k + 1, len, calls)
  ELSE IF list[k] = BadCallback
    THEN [listeners |-> map, calls |-> Append(calls, <<eventType, list[k]>>), threw |-> TRUE]
  ELSE IF list[k] = OnceCallback
    THEN forEach([map EXCEPT ![eventType] = Remove(@, indexOf(@, OnceCallback))],
                 eventType, k + 1, len, Append(calls, <<eventType, list[k]>>))
  ELSE forEach(map, eventType, k + 1, len, Append(calls, <<eventType, list[k]>>))

\* emit, on the listeners map: the map it leaves, the calls it made and
\* whether an exception left it
emit(map, eventType) ==
  IF eventType \in DOMAIN map
    THEN forEach(map, eventType, 1, Len(map[eventType]), <<>>)
    ELSE [listeners |-> map, calls |-> <<>>, threw |-> FALSE]

emitThrows(eventType) == emit(eventListeners, eventType).threw
emitCalls(eventType) == emit(eventListeners, eventType).calls
emitLeaves(eventType) == emit(eventListeners, eventType).listeners

\* pending is the list of reconnect timers still pending when it is called
attemptReconnect(pending) ==
  IF reconnectAttempts < maxReconnectAttempts
    THEN /\ reconnectAttempts' = reconnectAttempts + 1
         /\ reconnectTimers' = Append(pending, reconnectDelay * (reconnectAttempts + 1))
         /\ scheduled' = Append(scheduled, reconnectDelay * (reconnectAttempts + 1))
    ELSE /\ reconnectTimers' = pending
         /\ UNCHANGED <<reconnectAttempts, scheduled>>

\* stateOfEvent keeping the cached value of a field the event omits
stateOfEventMerged(event) ==
  LET old(f, d) == IF currentState = <<>> THEN d ELSE currentState[1][f] IN
  [round |-> OrNumber(event, "round", old("round", 0)),
   leader |-> OrNumber(event, "leader", old("leader", 0)),
   blockHeight |-> OrNumber(event, "blockHeight", old("blockHeight", 0)),
   balances |-> OrObject(event, "balances", old("balances", {})),
   mempool |-> OrObject(event, "mempool", old("mempool", <<>>)),
   ports |-> OrObject(event, "ports", old("ports", <<>>)),
   threshold |-> OrNumber(event, "threshold", old("threshold", DefaultThreshold))]

\* the state kept by handleEvent for a 'state' event
stateOfEvent(event) ==
  [round |-> OrNumber(event, "round", 0),
   leader |-> OrNumber(event, "leader", 0),
   blockHeight |-> OrNumber(event, "blockHeight", 0),
   balances |-> OrObject(event, "balances", {}),
   mempool |-> OrObject(event, "mempool", <<>>),
   ports |-> OrObject(event, "ports", <<>>),
   threshold |-> OrNumber(event, "threshold", DefaultThreshold)]

typeOf(event) == IF "type" \in DOMAIN event THEN event.type ELSE "undefined"

handleEvent(event) ==
  /\ currentState' = IF typeOf(event) = "state" THEN <<stateOfEvent(event)>>
                     ELSE currentState
  /\ LET typed == emit(eventListeners, typeOf(event))
         all == emit(typed.listeners, "all")
     IN IF typed.threw
          THEN dispatched' = typed.calls /\ eventListeners' = typed.listeners
          ELSE dispatched' = typed.calls \o all.calls /\ eventListeners' = all.listeners

\* onopen without its reset of reconnectAttempts
onopenNoReset(s) ==
  /\ sockets[s] = "connecting"
  /\ sockets' = [sockets EXCEPT ![s] = "open"]
  /\ scheduled' = <<>>
  /\ dispatched' = emitCalls("connection")
  /\ clientOp' = COp("onopen", "", <<>>)
  /\ prevState' = <<>>
  /\ eventListeners' = emitLeaves("connection")
  /\ UNCHANGED <<wsConnection, reconnectAttempts, reconnectTimers, currentState, polls>>

\* wsConnection.onopen
onopen(s) ==
  /\ sockets[s] = "connecting"
  /\ sockets' = [sockets EXCEPT ![s] = "open"]
  /\ reconnectAttempts' = 0
  /\ scheduled' = <<>>
  /\ dispatched' = emitCalls("connection")
  /\ clientOp' = COp("onopen", "", <<>>)
  /\ prevState' = <<>>
  /\ eventListeners' = emitLeaves("connection")
  /\ UNCHANGED <<wsConnection, reconnectTimers, currentState, polls>>

\* onmessage dropping the cache with a message that does not parse
onmessageDropsCache(s, raw) ==
  /\ sockets[s] = "open"
  /\ \/ /\ JSONparse(raw) = <<>>
        /\ dispatched' = <<>>
        /\ currentState' = <<>>
        /\ UNCHANGED eventListeners
     \/ /\ JSONparse(raw) # <<>>
        /\ handleEvent(JSONparse(raw)[1])
  /\ clientOp' = COp("onmessage", raw, <<>>)
  /\ prevState' = currentState
  /\ UNCHANGED <<sockets, wsConnection, reconnectAttempts, reconnectTimers, polls, scheduled>>

\* wsConnection.onmessage
onmessage(s, raw) ==
  /\ sockets[s] = "open"
  /\ \/ /\ JSONparse(raw) = <<>>
        /\ dispatched' = <<>>
        /\ UNCHANGED <<currentState, eventListeners>>
     \/ /\ JSONparse(raw) # <<>>
        /\ handleEvent(JSONparse(raw)[1])
  /\ clientOp' = COp("onmessage", raw, <<>>)
  /\ prevState' = currentState
  /\ UNCHANGED <<sockets, wsConnection, reconnectAttempts, reconnectTimers, polls, scheduled>>

\* wsConnection.onclose, for a connection that failed, was lost or was closed
onclose(s) ==
  /\ sockets[s] \in {"connecting", "open", "closing"}
  /\ sockets' = [sockets EXCEPT ![s] = "closed"]
  /\ dispatched' = emitCalls("connection")
  /\ IF emitThrows("connection")
       THEN UNCHANGED <<reconnectAttempts, reconnectTimers, scheduled>>
       ELSE attemptReconnect(reconnectTimers)
  /\ clientOp' = COp("onclose", "", <<>>)
  /\ prevState' = <<>>
  /\ eventListeners' = emitLeaves("connection")
  /\ UNCHANGED <<wsConnection, currentState, polls>>

\* initializeWebSocket: `new WebSocket` gives a connecting socket, or throws
initializeWebSocket(pending) ==
  \/ /\ sockets' = Append(sockets, "connecting")
     /\ wsConnection' = Len(sockets) + 1
     /\ reconnectTimers' = pending
     /\ UNCHANGED <<reconnectAttempts, scheduled>>
  \/ /\ attemptReconnect(pending)
     /\ UNCHANGED <<sockets, wsConnection>>

\* reconnectFire with a timer that stays pending after it fired
reconnectFireRepeats(i) ==
  /\ i \in 1..Len(reconnectTimers)
  /\ initializeWebSocket(reconnectTimers)
  /\ dispatched' = <<>>
  /\ clientOp' = COp("reconnect", "", <<>>)
  /\ prevState' = <<>>
  /\ UNCHANGED <<eventListeners, currentState, polls>>

\* a reconnect timer fires
reconnectFire(i) ==
  /\ i \in 1..Len(reconnectTimers)
  /\ initializeWebSocket(Remove(reconnectTimers, i))
  /\ dispatched' = <<>>
  /\ clientOp' = COp("reconnect", "", <<>>)
  /\ prevState' = <<>>
  /\ UNCHANGED <<eventListeners, currentState, polls>>

\* addEventListener putting the callback first
addEventListenerFirst(eventType, callback) ==
  /\ eventListeners' = MapSet(eventListeners, eventType, <<callback>> \o Listeners(eventType))
  /\ dispatched' = <<>>
  /\ clientOp' = COp("addEventListener", <<eventType, callback>>, <<>>)
  /\ prevState' = <<>>
  /\ UNCHANGED <<sockets, wsConnection, reconnectAttempts, reconnectTimers,
                 currentState, polls, scheduled>>

addEventListener(eventType, callback) ==
  /\ eventListeners' = MapSet(eventListeners, eventType, Append(Listeners(eventType), callback))
  /\ dispatched' = <<>>
  /\ clientOp' = COp("addEventListener", <<eventType, callback>>, <<>>)
  /\ prevState' = <<>>
  /\ UNCHANGED <<sockets, wsConnection, reconnectAttempts, reconnectTimers,
                 currentState, polls, scheduled>>

removeEventListener(eventType, callback) ==
  /\ eventListeners' =
       IF eventType \in DOMAIN eventListeners /\ indexOf(eventListeners[eventType], callback) > 0
         THEN [eventListeners EXCEPT ![eventType] =
                 Remove(@, indexOf(@, callback))]
         ELSE eventListeners
  /\ dispatched' = <<>>
  /\ clientOp' = COp("removeEventListener", <<eventType, callback>>, <<>>)
  /\ prevState' = <<>>
  /\ UNCHANGED <<sockets, wsConnection, reconnectAttempts, reconnectTimers,
                 currentState, polls, scheduled>>

\* getState up to its `await fetch`
getStateCall ==
  /\ polls' = polls + 1
  /\ dispatched' = <<>>
  /\ clientOp' = COp("getStateCall", "", <<>>)
  /\ prevState' = <<>>
  /\ UNCHANGED <<sockets, wsConnection, reconnectAttempts, reconnectTimers, eventListeners,
                 currentState, scheduled>>

\* getStateOk keeping the cached value of a field the body omits
getStateMerged(body) ==
  /\ polls > 0
  /\ JSONparse(body) # <<>>
  /\ polls' = polls - 1
  /\ currentState' =
       IF currentState = <<>> THEN JSONparse(body)
       ELSE <<[f \in DOMAIN currentState[1] \cup DOMAIN JSONparse(body)[1] |->
                 IF f \in DOMAIN JSONparse(body)[1] THEN JSONparse(body)[1][f]
                 ELSE currentState[1][f]]>>
  /\ clientOp' = COp("getState", body, JSONparse(body))
  /\ prevState' = currentState

\* getState from the response on: the body parses to the state, which is cached
\* and returned
getStateOk(body) ==
  /\ polls > 0
  /\ JSONparse(body) # <<>>
  /\ polls' = polls - 1
  /\ currentState' = JSONparse(body)
  /\ clientOp' = COp("getState", body, JSONparse(body))
  /\ prevState' = currentState

\* getStateFailed forgetting the cache
getStateFailedClears ==
  /\ polls > 0
  /\ polls' = polls - 1
  /\ clientOp' = COp("getStateFailed", "", currentState)
  /\ prevState' = currentState
  /\ currentState' = <<>>

\* getState when fetch rejects, the response is not ok or the body does not
\* parse: the cached state, or the throw when there is none (ret <<>>)
getStateFailed ==
  /\ polls > 0
  /\ polls' = polls - 1
  /\ clientOp' = COp("getStateFailed", "", currentState)
  /\ prevState' = currentState
  /\ UNCHANGED currentState

getStateReturn ==
  /\ \/ \E body \in {BodyFull, BodyPartial} : getStateOk(body)
     \/ getStateFailed
  /\ dispatched' = <<>>
  /\ UNCHANGED <<sockets, wsConnection, reconnectAttempts, reconnectTimers, eventListeners,
                 scheduled>>

\* sendTransaction applying the transfer to the cached balances when it is accepted
sendTransactionOptimistic(from, to, amount) ==
  /\ \/ /\ clientOp' = COp("sendTransaction", <<from, to, amount>>, "ok")
        /\ currentState' =
             IF currentState = <<>> THEN currentState
             ELSE <<[currentState[1] EXCEPT !.balances = @ \cup {<<to, amount>>}]>>
     \/ /\ clientOp' = COp("sendTransaction", <<from, to, amount>>,
                            "Failed to send transaction to blockchain backend")
        /\ UNCHANGED currentState
  /\ dispatched' = <<>>
  /\ prevState' = <<>>
  /\ UNCHANGED <<sockets, wsConnection, reconnectAttempts, reconnectTimers, eventListeners,
                 polls, scheduled>>

\* sendTransaction: POST /tx; the response's body, or the throw when fetch
\* rejects or the response is not ok
sendTransaction(from, to, amount) ==
  /\ \/ clientOp' = COp("sendTransaction", <<from, to, amount>>, "ok")
     \/ clientOp' = COp("sendTransaction", <<from, to, amount>>,
                         "Failed to send transaction to blockchain backend")
  /\ dispatched' = <<>>
  /\ prevState' = <<>>
  /\ UNCHANGED <<sockets, wsConnection, reconnectAttempts, reconnectTimers, eventListeners,
                 currentState, polls, scheduled>>

\* controlBlockchain: POST /control
controlBlockchain(action) ==
  /\ \/ clientOp' = COp("controlBlockchain", action, "ok")
     \/ clientOp' = COp("controlBlockchain", action, "Failed to control blockchain")
  /\ dispatched' = <<>>
  /\ prevState' = <<>>
  /\ UNCHANGED <<sockets, wsConnection, reconnectAttempts, reconnectTimers, eventListeners,
                 currentState, polls, scheduled>>

disconnect ==
  /\ IF wsConnection # 0
       THEN /\ sockets' = [sockets EXCEPT ![wsConnection] =
                             IF @ \in {"connecting", "open"} THEN "closing" ELSE @]
            /\ wsConnection' = 0
       ELSE UNCHANGED <<sockets, wsConnection>>
  /\ eventListeners' = NoListeners
  /\ dispatched' = <<>>
  /\ clientOp' = COp("disconnect", "", <<>>)
  /\ prevState' = <<>>
  /\ UNCHANGED <<reconnectAttempts, reconnectTimers, currentState, polls, scheduled>>

\* the state the constructor leaves
InitClient ==
  /\ \/ /\ sockets = <<"connecting">>
        /\ wsConnection = 1
        /\ reconnectAttempts = 0
        /\ reconnectTimers = <<>>
        /\ scheduled = <<>>
     \/ /\ sockets = <<>>
        /\ wsConnection = 0
        /\ reconnectAttempts = 1
        /\ reconnectTimers = <<reconnectDelay>>
        /\ scheduled = <<reconnectDelay>>
  /\ eventListeners = NoListeners
  /\ currentState = <<>>
  /\ polls = 0
  /\ dispatched = <<>>
  /\ prevState = <<>>
  /\ clientOp = COp("init", "", <<>>)

CountListeners ==
  LET RECURSIVE Sum(_)
      Sum(S) == IF S = {} THEN 0
                ELSE LET k == CHOOSE k \in S : TRUE IN Len(eventListeners[k]) + Sum(S \ {k})
  IN Sum(DOMAIN eventListeners)

SocketEvent(raws) ==
  /\ \/ \E s \in 1..Len(sockets) : onopen(s)
     \/ \E s \in 1..Len(sockets) : onclose(s)
     \/ \E s \in 1..Len(sockets), raw \in raws : onmessage(s, raw)
  /\ UNCHANGED <<txVars, submitVars, otherVars>>

ReconnectTimer(maxSockets) ==
  /\ \E i \in 1..Len(reconnectTimers) : reconnectFire(i)
  /\ Len(sockets') <= maxSockets
  /\ UNCHANGED <<txVars, submitVars, otherVars>>

\* types and callbacks are the event types and the callbacks of the callers
ListenerCallOf(maxListeners, types, callbacks) ==
  /\ \/ /\ CountListeners < maxListeners
        /\ \E t \in types, c \in callbacks : addEventListener(t, c)
     \/ \E t \in types, c \in callbacks : removeEventListener(t, c)
  /\ UNCHANGED <<txVars, submitVars, otherVars>>

ListenerCall(maxListeners) == ListenerCallOf(maxListeners, ListenerTypes, Callbacks)

Poll(maxPolls) ==
  /\ \/ (polls < maxPolls) /\ getStateCall
     \/ getStateReturn
  /\ UNCHANGED <<txVars, submitVars, otherVars>>

Disconnect ==
  /\ disconnect
  /\ UNCHANGED <<txVars, submitVars, otherVars>>

Request ==
  /\ \/ sendTransaction("Alice", "Bob", 2)
     \/ \E action \in {"start", "stop", "reset"} : controlBlockchain(action)
  /\ UNCHANGED <<txVars, submitVars, otherVars>>

NextClientB(maxSockets, maxListeners, maxPolls, raws) ==
  \/ SocketEvent(raws)
  \/ ReconnectTimer(maxSockets)
  \/ ListenerCall(maxListeners)
  \/ Poll(maxPolls)
  \/ Disconnect

\* ------------------------------------------------------------------
\* lib/blockchain (INTEGRATION_README.md) and CryptoLabPage (page.tsx)
\* ------------------------------------------------------------------

\* a real number x of the chain is held as the integer x * Scale
Scale == 10000

\* Math.PI * 2 in 1/Scale radians
TwoPi == 62832

Abs(x) == IF x < 0 THEN -x ELSE x

clamp(value, min, max) == Min(Max(value, min), max)

InputIds == {"A", "B", "C"}

InputValue(id) == CASE id = "A" -> 2200 [] id = "B" -> 3300 [] id = "C" -> 4500

\* txs maps each input transaction to its enabled flag
calculateTxRoot(txs) ==
  LET value(id) == IF txs[id] THEN InputValue(id) ELSE 0
      sum == value("A") + value("B") + value("C")
  IN clamp(sum, 0, Scale)

\* Math.sin on the first quarter turn, x in 1/Scale radians, by the polynomial
\* x (1 - x^2/6 (1 - x^2/20 (1 - x^2/42 (1 - x^2/72)))): within 4/Scale of
\* the value of Math.sin
sinQuarter(x) ==
  LET x2 == (x * x) \div Scale
      t4 == Scale - x2 \div 72
      t3 == Scale - ((x2 * t4) \div Scale) \div 42
      t2 == Scale - ((x2 * t3) \div Scale) \div 20
      t1 == Scale - ((x2 * t2) \div Scale) \div 6
  IN (x * t1) \div Scale

\* Math.sin(turns * Math.PI * 2), turns in 1/Scale of a turn
sinTurns(turns) ==
  LET t == turns % Scale
      half == t % (Scale \div 2)
      quarter == IF half <= Scale \div 4 THEN half ELSE Scale \div 2 - half
      s == sinQuarter((quarter * TwoPi) \div Scale)
  IN IF t < Scale \div 2 THEN s ELSE -s

\* mix = 0.3 prevDigest + 0.25 txRoot + 0.1 (seq / 100) + 0.35 policyCenter;
\* cos(mix 4 pi) is 1 - 2 sin(mix 2 pi)^2
calculateDigest(prevDigest, txRoot, seq, policyCenter) ==
  LET mix == (30 * prevDigest + 25 * txRoot + 10 * ((seq * Scale) \div 100)
                + 35 * policyCenter) \div 100
      sin == sinTurns(mix)
      cos == Scale - (2 * sin * sin) \div Scale
      shaped == Scale \div 2 + (4 * sin) \div 10 + cos \div 10
  IN clamp(shaped, 0, Scale)

isValidDigestOpen(digest, pol, one) ==
  LET lo == clamp(pol.center - pol.width \div 2, 0, one)
      hi == clamp(pol.center + pol.width \div 2, 0, one)
  IN digest > lo /\ digest < hi

\* isValidDigest on numbers held as integers times one
isValidDigestIn(digest, pol, one) ==
  LET lo == clamp(pol.center - pol.width \div 2, 0, one)
      hi == clamp(pol.center + pol.width \div 2, 0, one)
  IN digest >= lo /\ digest <= hi

isValidDigest(digest, pol) == isValidDigestIn(digest, pol, Scale)

\* the default tolerance of verifyBlock, 0.025
DefaultTolerance == 250

verifyBlock(block, policyCenter) ==
  LET expectedDigest == calculateDigest(block.prevV, block.rootV, block.seq, policyCenter)
  IN Abs(expectedDigest - block.digestV) < DefaultTolerance

createGenesisBlock ==
  [id |-> 1, prevV |-> 4200, rootV |-> 3500, seq |-> 0, digestV |-> 5000, valid |-> TRUE]

createBlock(id, prevDigest, txRoot, seq, policyCenter, pol) ==
  LET digestV == calculateDigest(prevDigest, txRoot, seq, policyCenter)
  IN [id |-> id, prevV |-> prevDigest, rootV |-> txRoot, seq |-> seq,
      digestV |-> digestV, valid |-> isValidDigest(digestV, pol)]

\* the state of the page after its first render
InitialPolicy == [center |-> 5000, width |-> 3000]

NoInputs == [id \in InputIds |-> FALSE]

\* what the handlers of one render close over: status, headBlock.digestV,
\* txRoot, sequence, policy and blocks.length
Closure ==
  [status |-> status, headDigestV |-> blocks[Len(blocks)].digestV,
   txRoot |-> calculateTxRoot(labTransactions), sequence |-> sequence,
   policy |-> policy, length |-> Len(blocks)]

\* the operation that a step makes on the chain; repeated: the step before
\* made the same operation
ChainOp(op, arg) ==
  [op |-> op, arg |-> arg, repeated |-> chainOp.op = op /\ chainOp.arg = arg]
NoChainOp == [op |-> "none", arg |-> 0, repeated |-> FALSE]

Toast(text, blockId) == [text |-> text, blockId |-> blockId]

showToast(message) == toastMessage' = <<message>>

\* the timer of showToast
toastExpire ==
  /\ toastMessage # <<>>
  /\ toastMessage' = <<>>
  /\ chainOp' = NoChainOp
  /\ UNCHANGED <<blocks, labTransactions, policy, sequence, status, rendered, flows,
                 requests>>

\* React commits a render of the current state; the handlers of the page
\* are from then on the closures of this render
Render ==
  /\ rendered # Closure
  /\ rendered' = Closure
  /\ chainOp' = NoChainOp
  /\ UNCHANGED <<blocks, labTransactions, policy, sequence, status, toastMessage, flows,
                 requests>>

handleTransactionToggle(id) ==
  /\ labTransactions' = [labTransactions EXCEPT ![id] = ~@]
  /\ chainOp' = NoChainOp
  /\ UNCHANGED <<blocks, policy, sequence, status, toastMessage, rendered, flows>>
  /\ requests' = requests + 1

handlePolicyChange(newPolicy) ==
  /\ policy' = newPolicy
  /\ chainOp' = NoChainOp
  /\ UNCHANGED <<blocks, labTransactions, sequence, status, toastMessage, rendered, flows>>
  /\ requests' = requests + 1

handleSequenceChange(seq) ==
  /\ sequence' = Max(0, seq)
  /\ chainOp' = NoChainOp
  /\ UNCHANGED <<blocks, labTransactions, policy, status, toastMessage, rendered, flows>>
  /\ requests' = requests + 1

\* a flow is a call of an async handler suspended in an await; its closure is
\* the render its handler came from
Flow(kind, stage) == [kind |-> kind, stage |-> stage, closure |-> rendered]

StageRank(stage) == CASE stage = "compute" -> 1 [] stage = "verify" -> 2 [] OTHER -> 3

\* the timers of two calls of one handler fire in the order of the calls
MayStep(i) ==
  \A j \in 1..(i - 1) :
    flows[j].kind = flows[i].kind => StageRank(flows[j].stage) > StageRank(flows[i].stage)

\* handleAddBlock up to its first await
handleAddBlock ==
  /\ IF rendered.status # "idle"
       THEN UNCHANGED <<status, flows>>
       ELSE /\ status' = "compute"
            /\ flows' = Append(flows, Flow("add", "compute"))
  /\ chainOp' = NoChainOp
  /\ UNCHANGED <<blocks, labTransactions, policy, sequence, toastMessage, rendered>>
  /\ requests' = requests + 1

\* after the 500 ms: the digest is computed and the status set to 'verify'
addCompute(i) ==
  /\ flows[i].kind = "add" /\ flows[i].stage = "compute"
  /\ MayStep(i)
  /\ status' = "verify"
  /\ flows' = [flows EXCEPT ![i].stage = "verify"]
  /\ chainOp' = NoChainOp
  /\ UNCHANGED <<blocks, labTransactions, policy, sequence, toastMessage, rendered,
                 requests>>

\* addVerify going on to append whatever the digest is
addVerifyAcceptsAll(i) ==
  /\ flows[i].kind = "add" /\ flows[i].stage = "verify"
  /\ MayStep(i)
  /\ status' = "append"
  /\ flows' = [flows EXCEPT ![i].stage = "append"]
  /\ chainOp' = NoChainOp
  /\ UNCHANGED <<blocks, labTransactions, policy, sequence, toastMessage, rendered, requests>>

\* after the 300 ms: the digest is checked against the policy of the closure
addVerify(i) ==
  /\ flows[i].kind = "add" /\ flows[i].stage = "verify"
  /\ MayStep(i)
  /\ LET c == flows[i].closure
         digest == calculateDigest(c.headDigestV, c.txRoot, c.sequence, c.policy.center)
     IN IF isValidDigest(digest, c.policy)
          THEN /\ status' = "append"
               /\ flows' = [flows EXCEPT ![i].stage = "append"]
               /\ UNCHANGED toastMessage
          ELSE /\ showToast(Toast("Invalid configuration - block not added", 0))
               /\ status' = "idle"
               /\ flows' = Remove(flows, i)
  /\ chainOp' = NoChainOp
  /\ UNCHANGED <<blocks, labTransactions, policy, sequence, rendered, requests>>

\* after the 200 ms: the block is built from the closure and appended
addAppend(i) ==
  /\ flows[i].kind = "add" /\ flows[i].stage = "append"
  /\ MayStep(i)
  /\ LET c == flows[i].closure
         newBlock == createBlock(c.length + 1, c.headDigestV, c.txRoot, c.sequence,
                                 c.policy.center, c.policy)
     IN blocks' = Append(blocks, newBlock)
  /\ sequence' = sequence + 1
  /\ showToast(Toast("Block added successfully", 0))
  /\ status' = "idle"
  /\ flows' = Remove(flows, i)
  /\ chainOp' = ChainOp("append", 0)
  /\ UNCHANGED <<labTransactions, policy, rendered, requests>>

\* handleVerifyChain up to its await
handleVerifyChain ==
  /\ IF rendered.status # "idle"
       THEN UNCHANGED <<status, flows>>
       ELSE /\ status' = "verify"
            /\ flows' = Append(flows, Flow("verify", "verify"))
  /\ chainOp' = NoChainOp
  /\ UNCHANGED <<blocks, labTransactions, policy, sequence, toastMessage, rendered>>
  /\ requests' = requests + 1

verifyChainRefreshes(chain, policyCenter) ==
  [i \in 1..Len(chain) |->
     [chain[i] EXCEPT !.valid = verifyBlock(chain[i], policyCenter),
                      !.digestV = calculateDigest(chain[i].prevV, chain[i].rootV,
                                                  chain[i].seq, policyCenter)]]

verifyChainToggles(chain, policyCenter) ==
  [i \in 1..Len(chain) |->
     [chain[i] EXCEPT !.valid = (chain[i].valid = verifyBlock(chain[i], policyCenter))]]

\* prev.map(block => ({ ...block, valid: verifyBlock(block, policy.center) }))
verifyChain(chain, policyCenter) ==
  [i \in 1..Len(chain) |->
     [chain[i] EXCEPT !.valid = verifyBlock(chain[i], policyCenter)]]

\* after the 800 ms: every block is verified against the center of the closure
verifyCommit(i) ==
  /\ flows[i].kind = "verify"
  /\ MayStep(i)
  /\ blocks' = verifyChain(blocks, flows[i].closure.policy.center)
  /\ status' = "idle"
  /\ showToast(Toast("Chain verification complete", 0))
  /\ flows' = Remove(flows, i)
  /\ chainOp' = ChainOp("reverify", flows[i].closure.policy.center)
  /\ UNCHANGED <<labTransactions, policy, sequence, rendered, requests>>

handleReset ==
  /\ IF rendered.status # "idle"
       THEN UNCHANGED <<blocks, labTransactions, sequence, status, toastMessage>>
            /\ chainOp' = NoChainOp
       ELSE /\ blocks' = <<createGenesisBlock>>
            /\ labTransactions' = NoInputs
            /\ sequence' = 1
            /\ status' = "idle"
            /\ showToast(Toast("Chain reset to genesis", 0))
            /\ chainOp' = ChainOp("reset", 0)
  /\ UNCHANGED <<policy, rendered, flows>>
  /\ requests' = requests + 1

tamperChainMarks(chain, blockId) ==
  [i \in 1..Len(chain) |->
     IF chain[i].id = blockId
       THEN [chain[i] EXCEPT !.rootV = Min(Scale, @ + Scale \div 10), !.valid = FALSE]
       ELSE chain[i]]

tamperChainCascades(chain, blockId) ==
  [i \in 1..Len(chain) |->
     IF chain[i].id = blockId
       THEN [chain[i] EXCEPT !.rootV = Min(Scale, @ + Scale \div 10)]
       ELSE IF i > 1 /\ chain[i - 1].id = blockId
              THEN [chain[i] EXCEPT !.prevV =
                      calculateDigest(chain[i - 1].prevV,
                                      Min(Scale, chain[i - 1].rootV + Scale \div 10),
                                      chain[i - 1].seq, policy.center)]
              ELSE chain[i]]

\* prev.map(block => block.id === blockId
\*   ? { ...block, rootV: Math.min(1, block.rootV + 0.1) } : block)
tamperChain(chain, blockId) ==
  [i \in 1..Len(chain) |->
     IF chain[i].id = blockId
       THEN [chain[i] EXCEPT !.rootV = Min(Scale, @ + Scale \div 10)]
       ELSE chain[i]]

handleTamperBlock(blockId) ==
  /\ blocks' = tamperChain(blocks, blockId)
  /\ showToast(Toast("Block tampered with - run Verify Chain to see effects", blockId))
  /\ requests' = requests + 1
  /\ chainOp' = ChainOp("tamper", blockId)
  /\ UNCHANGED <<labTransactions, policy, sequence, status, rendered, flows>>

InitPage ==
  /\ blocks = <<createGenesisBlock>>
  /\ labTransactions = NoInputs
  /\ policy = InitialPolicy
  /\ sequence = 1
  /\ status = "idle"
  /\ toastMessage = <<>>
  /\ rendered = [status |-> "idle", headDigestV |-> createGenesisBlock.digestV,
                 txRoot |-> 0, sequence |-> 1, policy |-> InitialPolicy, length |-> 1]
  /\ flows = <<>>
  /\ requests = 0
  /\ chainOp = NoChainOp

\* the requests of the user and the steps of the page, among bounded inputs
PageFrame == UNCHANGED <<txVars, clientVars, submitVars, validation, windowCheck, backendVars>>

Toggle(ids, maxRequests) ==
  /\ requests < maxRequests
  /\ \E id \in ids : handleTransactionToggle(id)
  /\ PageFrame

PolicyChange(centers, maxRequests) ==
  /\ requests < maxRequests
  /\ \E center \in centers : handlePolicyChange([center |-> center, width |-> policy.width])
  /\ PageFrame

SequenceChange(seqs, maxRequests) ==
  /\ requests < maxRequests
  /\ \E seq \in seqs : handleSequenceChange(seq)
  /\ PageFrame

AddBlock(maxRequests) ==
  /\ requests < maxRequests
  /\ handleAddBlock
  /\ PageFrame

AddCompute == (\E i \in 1..Len(flows) : addCompute(i)) /\ PageFrame

AddVerify == (\E i \in 1..Len(flows) : addVerify(i)) /\ PageFrame

AddAppend == (\E i \in 1..Len(flows) : addAppend(i)) /\ PageFrame

VerifyChain(maxRequests) ==
  /\ requests < maxRequests
  /\ handleVerifyChain
  /\ PageFrame

VerifyCommit == (\E i \in 1..Len(flows) : verifyCommit(i)) /\ PageFrame

Reset(maxRequests) ==
  /\ requests < maxRequests
  /\ handleReset
  /\ PageFrame

Tamper(blockIds, maxRequests) ==
  /\ requests < maxRequests
  /\ \E blockId \in blockIds : handleTamperBlock(blockId)
  /\ PageFrame

Rerender == Render /\ PageFrame

ToastTimer == toastExpire /\ PageFrame

vars == <<txVars, clientVars, submitVars, otherVars>>

InitBackend == server = 1 /\ wire = <<>> /\ answers = <<>>

InitOther == validation = <<>> /\ InitPage /\ windowCheck = <<>> /\ InitBackend

Init == InitTx /\ InitClient /\ InitOther

\* callers and amounts are the senders and the amounts of the requests made
StoreCall(maxTx, callers, amounts) ==
  /\ \/ /\ Len(transactions) < maxTx
        /\ \E f \in callers, e \in Users \cup {NoUser}, a \in amounts :
             createTransaction(f, e, a)
     \/ \E id \in {NoTx} \cup TxIds : processTransaction(id)
     \/ \E id \in {NoTx} \cup TxIds : completeTransaction(id)
  /\ UNCHANGED <<verificationJobs, timers, awaiting, nextTimer,
                 cancelled, completedBy, finished>>
  /\ UNCHANGED <<clientVars, submitVars, otherVars>>

JobCall(maxJobs) ==
  \/ /\ \E id \in {NoTx} \cup TxIds :
          (HasJob(id) \/ nextTimer <= maxJobs) /\ initiateVerification(id)
     /\ UNCHANGED <<transactions, ecoCoins, awaiting, cancelled, completedBy, finished>>
     /\ UNCHANGED <<clientVars, submitVars, otherVars>>
  \/ /\ \E id \in {NoTx} \cup TxIds : cancelVerification(id)
     /\ UNCHANGED <<transactions, ecoCoins, awaiting, nextTimer, completedBy, finished>>
     /\ UNCHANGED <<clientVars, submitVars, otherVars>>

Fire ==
  /\ \E t \in timers : expiryFire(t)
  /\ UNCHANGED <<transactions, ecoCoins, verificationJobs, nextTimer,
                 cancelled, completedBy, finished>>
  /\ UNCHANGED <<clientVars, submitVars, otherVars>>

Write ==
  /\ \E c \in awaiting : expiryWrite(c)
  /\ UNCHANGED <<ecoCoins, verificationJobs, timers, nextTimer, cancelled, finished>>
  /\ UNCHANGED <<clientVars, submitVars, otherVars>>

Resume ==
  /\ \E c \in awaiting : expiryResume(c)
  /\ UNCHANGED <<transactions, ecoCoins, timers, nextTimer, cancelled, completedBy>>
  /\ UNCHANGED <<clientVars, submitVars, otherVars>>

Clock ==
  /\ Tick
  /\ UNCHANGED <<transactions, ecoCoins, awaiting, nextTimer,
                 cancelled, completedBy, finished>>
  /\ UNCHANGED <<clientVars, submitVars, otherVars>>

----------------------------------------------------------------------------
(* TransactionService.sendEcoCoins (lib/database.ts) *)

\* an email without '@'
BadEmail == "invalid"
\* amounts of the requests made to sendEcoCoins and to createTransaction
SubmitAmounts == {0, 60, 150, 1500}

\* getBlockchainAddress: the addressMap, else the local part of the email
getBlockchainAddress(userEmail) ==
  CASE userEmail = "u1" -> "Alice"
    [] userEmail = "u2" -> "Bob"
    [] OTHER -> userEmail

Rejected(message) ==
  /\ lastOp' = Op("sendEcoCoins", NoTx, message)
  /\ UNCHANGED <<transactions, ecoCoins, submission>>

\* sendEcoCoins up to the return of createTransaction
sendEcoCoinsCall(fromUserId, toUserEmail, amount) ==
  /\ submission = <<>>
  /\ \/ /\ amount <= 0
        /\ Rejected("Transaction amount must be greater than 0")
     \/ /\ amount > 0
        /\ amount > 1000
        /\ Rejected("Transaction amount cannot exceed 1000 ECO Coins")
     \/ /\ amount > 0
        /\ amount <= 1000
        /\ toUserEmail = BadEmail
        /\ Rejected("Please provide a valid recipient email address")
     \/ /\ amount > 0
        /\ amount <= 1000
        /\ toUserEmail # BadEmail
        /\ getUserByEmail(toUserEmail) = NoUser
        /\ Rejected("Recipient user not found. Please check the email address.")
     \/ /\ amount > 0
        /\ amount <= 1000
        /\ toUserEmail # BadEmail
        /\ getUserByEmail(toUserEmail) # NoUser
        /\ getUserByEmail(toUserEmail) = fromUserId
        /\ Rejected("You cannot send ECO Coins to yourself")
     \/ /\ amount > 0
        /\ amount <= 1000
        /\ toUserEmail # BadEmail
        /\ getUserByEmail(toUserEmail) # NoUser
        /\ getUserByEmail(toUserEmail) # fromUserId
        /\ createTransaction(fromUserId, toUserEmail, amount)
        /\ submission' = <<[id |-> Len(transactions) + 1, from |-> fromUserId,
                            to |-> toUserEmail, amount |-> amount,
                            pc |-> "process", error |-> ""]>>

\* Step 2: await processTransaction(transactionId); its throw goes to the catch
sendEcoCoinsProcess ==
  /\ submission # <<>>
  /\ submission[1].pc = "process"
  /\ processTransaction(submission[1].id)
  /\ submission' = IF lastOp'.ret = "ok"
                     THEN <<[submission[1] EXCEPT !.pc = "forward"]>>
                     ELSE <<[submission[1] EXCEPT !.pc = "throw", !.error = lastOp'.ret]>>

\* Step 3: await realBlockchainService.sendTransaction(...); then the 1000 ms
\* timer of completeTransaction is set and the call returns, or the call
\* throws when sendTransaction threw
sendEcoCoinsForward ==
  /\ submission # <<>>
  /\ submission[1].pc = "forward"
  /\ sendTransaction(getBlockchainAddress(submission[1].from),
                     getBlockchainAddress(submission[1].to), submission[1].amount)
  /\ IF clientOp'.ret = "ok"
       THEN /\ completions' = completions \cup {submission[1].id}
            /\ lastOp' = Op("sendEcoCoins", submission[1].id, "ok")
       ELSE /\ UNCHANGED completions
            /\ lastOp' = Op("sendEcoCoins", submission[1].id,
                            "Failed to send transaction to blockchain network")
  /\ submission' = <<>>

\* catch (error) { throw error }: the call ends with the error
sendEcoCoinsThrow ==
  /\ submission # <<>>
  /\ submission[1].pc = "throw"
  /\ lastOp' = Op("sendEcoCoins", submission[1].id, submission[1].error)
  /\ submission' = <<>>

\* the 1000 ms timer set by sendEcoCoins fires
completionFire(id) ==
  /\ id \in completions
  /\ completions' = completions \ {id}
  /\ completeTransaction(id)

jobVars == <<verificationJobs, timers, awaiting, nextTimer, cancelled, completedBy, finished>>

SubmitCall(maxTx) ==
  /\ Len(transactions) < maxTx
  /\ \E f \in Users, e \in Users \cup {NoUser, BadEmail}, a \in SubmitAmounts :
       sendEcoCoinsCall(f, e, a)
  /\ UNCHANGED <<jobVars, completions, clientVars, otherVars>>

SubmitProcess ==
  /\ sendEcoCoinsProcess
  /\ UNCHANGED <<jobVars, completions, clientVars, otherVars>>

SubmitForward ==
  /\ sendEcoCoinsForward
  /\ UNCHANGED <<jobVars, transactions, ecoCoins, otherVars>>

SubmitThrow ==
  /\ sendEcoCoinsThrow
  /\ UNCHANGED <<jobVars, transactions, ecoCoins, completions, clientVars, otherVars>>

CompletionTimer ==
  /\ \E id \in completions : completionFire(id)
  /\ UNCHANGED <<jobVars, submission, clientVars, otherVars>>

NextSubmit ==
  \/ StoreCall(MaxSubmitTx, Users, SubmitAmounts)
  \/ SubmitCall(MaxSubmitTx)
  \/ SubmitProcess
  \/ SubmitForward
  \/ SubmitThrow
  \/ CompletionTimer
SpecSubmit == Init /\ [][NextSubmit]_vars

----------------------------------------------------------------------------
(* TransactionService.validateTransactionRequest (lib/database.ts) *)

\* the requests validated: an amount is given in tenths of a coin, so that
\* 25 is 2.5 coins and an amount is a whole number when it is a multiple of 10
Tenths == 10
ValidateEmails == {"", BadEmail, "u1", "u2"}
ValidateAmounts == {-50, -25, 0, 25, 600, 10000, 10005, 15000, 15005}
Requests == [toUserEmail : ValidateEmails, amount : ValidateAmounts]

\* validateTransactionRequest returning the first error only
validateFailFast(request) ==
  LET errors ==
        IF request.toUserEmail = "" THEN <<"Recipient email is required">>
        ELSE IF request.toUserEmail = BadEmail THEN <<"Invalid email format">>
        ELSE IF request.amount = 0 THEN <<"Amount is required">>
        ELSE IF request.amount <= 0 THEN <<"Amount must be greater than 0">>
        ELSE IF request.amount > 1000 * Tenths THEN <<"Amount cannot exceed 1000 ECO Coins">>
        ELSE IF request.amount % Tenths # 0 THEN <<"Amount must be a whole number">>
        ELSE <<>>
  IN [isValid |-> errors = <<>>, errors |-> errors]

validateTransactionRequest(request) ==
  LET emailErrors ==
        IF request.toUserEmail = "" THEN <<"Recipient email is required">>
        ELSE IF request.toUserEmail = BadEmail THEN <<"Invalid email format">>
        ELSE <<>>
      amountErrors ==
        IF request.amount = 0 THEN <<"Amount is required">>
        ELSE IF request.amount <= 0 THEN <<"Amount must be greater than 0">>
        ELSE IF request.amount > 1000 * Tenths THEN <<"Amount cannot exceed 1000 ECO Coins">>
        ELSE IF request.amount % Tenths # 0 THEN <<"Amount must be a whole number">>
        ELSE <<>>
      errors == emailErrors \o amountErrors
  IN [isValid |-> errors = <<>>, errors |-> errors]

Validate ==
  /\ \E request \in Requests :
       validation' = <<[request |-> request, result |-> validateTransactionRequest(request)]>>
  /\ UNCHANGED <<txVars, clientVars, submitVars, pageVars, windowCheck, backendVars>>

\* SpecValidate: validation among the calls to the store
NextValidate ==
  \/ Validate
  \/ StoreCall(MaxValidateTx, Users, Amounts)
SpecValidate == Init /\ [][NextValidate]_vars

\* SpecChain: the page under requests issued at any moment
ChainToggles == {"C"}
ChainCenters == {5000, 6000}
ChainTamperIds == {1, 2}
NextChain ==
  \/ Toggle(ChainToggles, MaxRequests)
  \/ PolicyChange(ChainCenters, MaxRequests)
  \/ AddBlock(MaxRequests)
  \/ AddCompute
  \/ AddVerify
  \/ AddAppend
  \/ VerifyChain(MaxRequests)
  \/ VerifyCommit
  \/ Reset(MaxRequests)
  \/ Tamper(ChainTamperIds, MaxRequests)
  \/ Rerender
  \/ ToastTimer
SpecChain == Init /\ [][NextChain]_vars

\* SpecWindow: calls of isValidDigest, numbers held in millionths so that
\* 0.349999 and 0.650001 are among the digests
Millionths == 1000000
WindowDigests ==
  {0, 1, 25000, 100000, 349999, 350000, 350001, 500000, 649999, 650000, 650001,
   750000, 999999, 1000000}
WindowCenters == {0, 50000, 500000, 900000, 1000000}
WindowWidths == {50000, 300000, 500000}
WindowCheck ==
  /\ \E digest \in WindowDigests, center \in WindowCenters, width \in WindowWidths :
       LET pol == [center |-> center, width |-> width]
       IN windowCheck' = <<[digest |-> digest, policy |-> pol,
                            result |-> isValidDigestIn(digest, pol, Millionths)]>>
  /\ UNCHANGED <<txVars, clientVars, submitVars, validation, pageVars, backendVars>>
NextWindow == WindowCheck
SpecWindow == Init /\ [][NextWindow]_vars

\* SpecLedger: the page with its three inputs, at the initial policy
LedgerSeqs == {-1}
LedgerTamperIds == {1, 2}
NextLedger ==
  \/ Toggle(InputIds, MaxLedgerRequests)
  \/ SequenceChange(LedgerSeqs, MaxLedgerRequests)
  \/ AddBlock(MaxLedgerRequests)
  \/ AddCompute
  \/ AddVerify
  \/ AddAppend
  \/ VerifyChain(MaxLedgerRequests)
  \/ VerifyCommit
  \/ Reset(MaxLedgerRequests)
  \/ Tamper(LedgerTamperIds, MaxLedgerRequests)
  \/ Rerender
  \/ ToastTimer
SpecLedger == Init /\ [][NextLedger]_vars

StatusRead ==
  /\ \E id \in {NoTx} \cup TxIds : getVerificationStatus(id)
  /\ UNCHANGED <<transactions, ecoCoins, awaiting, nextTimer,
                 cancelled, completedBy, finished>>
  /\ UNCHANGED <<clientVars, submitVars, otherVars>>

\* time passes by a third of the delay; a job that is still in the map after
\* its delay (its callback late or suspended) ages past the delay
StatusClock ==
  /\ TickBy(StatusTickMs, VERIFICATION_DELAY + StatusTickMs)
  /\ UNCHANGED <<transactions, ecoCoins, awaiting, nextTimer,
                 cancelled, completedBy, finished>>
  /\ UNCHANGED <<clientVars, submitVars, otherVars>>

\* SpecStatus: reads of the status of jobs as time passes
NextStatus ==
  \/ StoreCall(MaxStatusTx, {"u1"}, {60})
  \/ JobCall(MaxStatusJobs)
  \/ Fire \/ Write \/ Resume
  \/ StatusClock
  \/ StatusRead
SpecStatus == Init /\ [][NextStatus]_vars

NextTx(maxTx, maxJobs, callers, amounts) ==
  StoreCall(maxTx, callers, amounts) \/ JobCall(maxJobs) \/ Fire \/ Write \/ Resume \/ Clock


Next == NextTx(MaxTx, MaxJobs, Users \cup {NoUser}, Amounts)
Spec == Init /\ [][Next]_vars

NextStore == NextTx(MaxStoreTx, MaxStoreJobs, Users \cup {NoUser}, Amounts)
SpecStore == Init /\ [][NextStore]_vars

\* SpecBalance: the store called directly, with the amounts that a caller of
\* createTransaction can pass: the type is `number`, negative ones included
BalanceAmounts == {60, 150, -150}
NextBalance == NextTx(MaxBalanceTx, MaxBalanceJobs, Users, BalanceAmounts)
SpecBalance == Init /\ [][NextBalance]_vars

\* a due timer's callback runs, an issued write settles and its continuation
\* runs, and time passes; the requests are one sender's, of one amount
NextLive == NextTx(MaxLiveTx, MaxLiveJobs, {"u1"}, {60})
SpecLive ==
  /\ Init /\ [][NextLive]_vars
  /\ WF_txVars(Clock) /\ WF_txVars(Fire) /\ WF_txVars(Write) /\ WF_txVars(Resume)

\* SpecClient: the connection; SpecSnap: the cached state
NextClient == NextClientB(MaxSockets, MaxListeners, MaxPolls, {RawFull, RawGarbage})
SpecClient == Init /\ [][NextClient]_vars

NextSnap ==
  NextClientB(MaxSnapSockets, MaxSnapListeners, MaxSnapPolls,
              {RawFull, RawNoMempool, RawBare, RawZero, RawCommit, RawGarbage})
SpecSnap == Init /\ [][NextSnap]_vars

\* SpecReq: the requests to the backend among the other operations
NextReq ==
  \/ NextClientB(MaxReqSockets, MaxReqListeners, MaxReqPolls, {RawFull, RawGarbage})
  \/ Request
SpecReq == Init /\ [][NextReq]_vars

\* SpecBus: listeners and the events dispatched to them
NextBus ==
  \/ SocketEvent({RawBare, RawCommit, RawUnknown, RawNoType, RawGarbage})
  \/ ReconnectTimer(MaxBusSockets)
  \/ ListenerCall(MaxBusListeners)
  \/ Disconnect
SpecBus == Init /\ [][NextBus]_vars

\* SpecPoll: a backend whose round only grows sends a state event for every
\* round to the open socket, in order, and answers each GET /state with the
\* round it is in; the responses of different requests may arrive in any order
PollFrame == UNCHANGED <<txVars, submitVars, validation, pageVars, windowCheck>>
SocketOpens ==
  /\ \E s \in 1..Len(sockets) : onopen(s)
  /\ UNCHANGED backendVars
  /\ PollFrame
ServerRound ==
  /\ server < MaxRounds
  /\ server' = server + 1
  /\ wire' = IF \E s \in 1..Len(sockets) : sockets[s] = "open"
             THEN Append(wire, server + 1) ELSE wire
  /\ UNCHANGED <<answers, clientVars>>
  /\ PollFrame
StateEvent ==
  /\ wire # <<>>
  /\ \E s \in 1..Len(sockets) : onmessage(s, StateMessages[Head(wire)])
  /\ wire' = Tail(wire)
  /\ UNCHANGED <<server, answers>>
  /\ PollFrame
PollCall ==
  /\ polls < MaxPollCalls
  /\ getStateCall
  /\ UNCHANGED backendVars
  /\ PollFrame
ServerAnswer ==
  /\ Len(answers) < polls
  /\ answers' = Append(answers, server)
  /\ UNCHANGED <<server, wire, clientVars>>
  /\ PollFrame
PollResponse ==
  /\ \E i \in 1..Len(answers) :
        /\ getStateOk(StateBodies[answers[i]])
        /\ answers' = Remove(answers, i)
  /\ dispatched' = <<>>
  /\ UNCHANGED <<sockets, wsConnection, reconnectAttempts, reconnectTimers, eventListeners,
                 scheduled, server, wire>>
  /\ PollFrame
PollFails ==
  /\ Len(answers) < polls
  /\ getStateFailed
  /\ dispatched' = <<>>
  /\ UNCHANGED <<sockets, wsConnection, reconnectAttempts, reconnectTimers, eventListeners,
                 scheduled, backendVars>>
  /\ PollFrame
NextPoll ==
  \/ SocketOpens
  \/ ServerRound
  \/ StateEvent
  \/ PollCall
  \/ ServerAnswer
  \/ PollResponse
  \/ PollFails
SpecPoll == Init /\ [][NextPoll]_vars

\* SpecDispatch: listeners that unsubscribe while an event is dispatched
DispatchTypes == {"connection", "commit", "all"}
DispatchCallbacks == {"handler", OnceCallback}
NextDispatch ==
  \/ SocketEvent({RawCommit, RawGarbage})
  \/ ReconnectTimer(MaxDispatchSockets)
  \/ ListenerCallOf(MaxDispatchListeners, DispatchTypes, DispatchCallbacks)
  \/ Disconnect
SpecDispatch == Init /\ [][NextDispatch]_vars

----------------------------------------------------------------------------
(* Verification jobs and the transaction store: properties *)

JobIds == {NoTx} \cup TxIds
TimersOf(id) == {t \in timers : t.tx = id}
Rank(st) == CASE st = "pending" -> 0
              [] st = "verifying" -> 1
              [] OTHER -> 2
Terminal(st) == st \in {"completed", "failed", "cancelled"}

\* C1: no job is both cancelled with success (cancel returned true) and the
\* one whose expiry marked the transaction completed.
C1_NoDoubleCompletion == cancelled \cap completedBy = {}

\* C2: in every step the status of every transaction keeps or raises its rank
\* along pending -> verifying -> {completed | failed}, and a transaction in a
\* terminal status keeps that status.
C2_StatusMonotonic ==
  [][\A id \in TxIds :
        /\ Rank(transactions'[id].status) >= Rank(transactions[id].status)
        /\ Terminal(transactions[id].status) =>
              transactions'[id].status = transactions[id].status]_vars

\* C2 witness: processTransaction was called on a completed transaction and
\* the transaction is still completed.
C2_Witness ==
  \E id \in TxIds :
    /\ lastOp = Op("processTransaction", id, "Transaction is not pending")
    /\ transactions[id].status = "completed"

\* C3: at most one expiry timer is pending per transaction id, and a step
\* that starts a timer starts it for an id that had no job; a job that stays
\* in the map keeps its timer handle and its start time (its age is not reset).
C3_OneJobPerId ==
  [][/\ \A id \in JobIds : Cardinality(TimersOf(id)) <= 1
     /\ \A id \in JobIds :
          (HasJob(id) /\ lastOp'.op = "initiateVerification" /\ lastOp'.id = id) =>
             /\ lastOp'.ret = "Transaction is already being verified"
             /\ UNCHANGED <<verificationJobs, timers, nextTimer>>]_vars

\* C4: cancel returns true exactly when the id has a job; then the job leaves
\* the map, its timer is no longer pending and its expiry callback takes no
\* later step; cancel returning false changes no job and no transaction.
C4_CancelContract ==
  [][/\ \A id \in JobIds :
          lastOp' = Op("cancelVerification", id, "true") =>
             /\ HasJob(id)
             /\ id \notin DOMAIN verificationJobs'
             /\ \A t \in timers' : t.timeoutId # verificationJobs[id].timeoutId
     /\ \A id \in JobIds :
          lastOp' = Op("cancelVerification", id, "false") =>
             /\ ~HasJob(id)
             /\ UNCHANGED <<transactions, ecoCoins, verificationJobs, timers, awaiting>>
     /\ \A tid \in cancelled :
          /\ tid \in completedBy' => tid \in completedBy
          /\ tid \in finished' => tid \in finished]_vars

\* C5: when cancel succeeds for a transaction that is verifying, the
\* transaction's status is 'cancelled' after the call.
C5_CancelledStatus ==
  [][\A id \in TxIds :
        (lastOp' = Op("cancelVerification", id, "true")
           /\ transactions[id].status = "verifying") =>
        transactions'[id].status = "cancelled"]_vars

----------------------------------------------------------------------------
(* RealBlockchainService: properties *)

Live(s) == sockets[s] \in {"connecting", "open", "closing"}
\* no socket can still close and no reconnect timer is pending
Quiescent == reconnectTimers = <<>> /\ \A s \in 1..Len(sockets) : ~Live(s)
FieldOr(event, f, d) == IF f \in DOMAIN event THEN event[f] ELSE d

\* C7: the reconnects scheduled since the last open are at most 5, the k-th
\* with delay reconnectDelay * k, and when the client has stopped (no live
\* socket, no pending reconnect timer) all 5 of them were scheduled.
C7_ReconnectCap ==
  /\ Len(scheduled) <= maxReconnectAttempts
  /\ \A k \in 1..Len(scheduled) : scheduled[k] = reconnectDelay * k
  /\ Quiescent => Len(scheduled) = maxReconnectAttempts

\* C8: reconnectAttempts is within 0..5; it is 0 after every onopen and
\* while a socket is open; it counts the reconnects scheduled since the last
\* open, whose delays are reconnectDelay * 1, reconnectDelay * 2, ...
C8_CounterReset ==
  /\ reconnectAttempts \in 0..maxReconnectAttempts
  /\ clientOp.op = "onopen" => reconnectAttempts = 0
  /\ (\E s \in 1..Len(sockets) : sockets[s] = "open") => reconnectAttempts = 0
  /\ Len(scheduled) = reconnectAttempts
  /\ \A k \in 1..Len(scheduled) : scheduled[k] = reconnectDelay * k

\* C8 witness: the second socket, which only a reconnect creates, has just
\* opened and the counter is 0.
C8_Witness ==
  /\ clientOp.op = "onopen"
  /\ Len(sockets) = 2
  /\ sockets[2] = "open"
  /\ reconnectAttempts = 0

\* C9: after a message that parses to a 'state' event, every field of the
\* cached state is the event's field, or the default when the event omits it
\* (0, the empty mapping, the empty sequence, threshold 0.6), whatever the
\* cache held before.
C9_ReplaceNotMerge ==
  (/\ clientOp.op = "onmessage"
   /\ JSONparse(clientOp.arg) # <<>>
   /\ typeOf(JSONparse(clientOp.arg)[1]) = "state") =>
  LET event == JSONparse(clientOp.arg)[1] IN
  currentState = <<[round |-> FieldOr(event, "round", 0),
                    leader |-> FieldOr(event, "leader", 0),
                    blockHeight |-> FieldOr(event, "blockHeight", 0),
                    balances |-> FieldOr(event, "balances", {}),
                    mempool |-> FieldOr(event, "mempool", <<>>),
                    ports |-> FieldOr(event, "ports", <<>>),
                    threshold |-> FieldOr(event, "threshold", DefaultThreshold)]>>

\* C9 witness: a state event without mempool arrived while the cache held a
\* non-empty mempool, and the cached mempool is now empty.
C9_Witness ==
  /\ clientOp.op = "onmessage"
  /\ clientOp.arg = RawNoMempool
  /\ prevState # <<>>
  /\ prevState[1].mempool # <<>>
  /\ currentState[1].mempool = <<>>

\* C10: after a getState that succeeded the cached state is exactly the state
\* it returned, which is the parsed body alone.
C10_CacheIsPollResult ==
  clientOp.op = "getState" =>
    /\ currentState = clientOp.ret
    /\ currentState = JSONparse(clientOp.arg)

\* C10 witness: a getState succeeded with a body that has only `round`, while
\* the cache held a full state; the cache now has only `round`.
C10_Witness ==
  /\ clientOp.op = "getState"
  /\ clientOp.arg = BodyPartial
  /\ prevState # <<>>
  /\ "mempool" \in DOMAIN prevState[1]
  /\ DOMAIN currentState[1] = {"round"}

\* C11: a getState that fails leaves the cache as it was and returns the
\* cached state; with no cached state it throws (ret <<>>) and returns nothing.
C11_FailedPollKeepsCache ==
  clientOp.op = "getStateFailed" =>
    /\ currentState = prevState
    /\ clientOp.ret = prevState

\* C11 witness: a getState failed while a state was cached and returned it.
C11_Witness ==
  /\ clientOp.op = "getStateFailed"
  /\ prevState # <<>>
  /\ clientOp.ret = prevState
  /\ currentState = prevState

\* C11 witness of the other case: a getState failed with nothing cached and threw.
C11_WitnessThrow ==
  /\ clientOp.op = "getStateFailed"
  /\ prevState = <<>>
  /\ clientOp.ret = <<>>

\* C12: a message that does not parse calls no listener, leaves the cached
\* state, the socket and the listeners as they were, and the socket stays
\* open for the next message.
C12_MalformedDropped ==
  [][(clientOp'.op = "onmessage" /\ JSONparse(clientOp'.arg) = <<>>) =>
        /\ dispatched' = <<>>
        /\ UNCHANGED <<currentState, sockets, wsConnection, eventListeners,
                       reconnectAttempts, reconnectTimers>>
        /\ \E s \in 1..Len(sockets') : sockets'[s] = "open"]_vars

\* C12 witness: a message that does not parse arrived while a state was
\* cached and an 'all' listener was registered; no listener was called and
\* the cache is as before.
C12_Witness ==
  /\ clientOp.op = "onmessage"
  /\ clientOp.arg = RawGarbage
  /\ Listeners("all") # <<>>
  /\ dispatched = <<>>
  /\ currentState # <<>>
  /\ currentState = prevState

\* the kinds of event the stream carries: the values of BlockchainEvent.type
\* ('chal' is the challenge)
Kinds == {"state", "chal", "witness", "commit", "skip"}
\* the calls that reach every listener of a type, in the order of its list
AllCalls(eventType) == [i \in 1..Len(Listeners(eventType)) |-> <<eventType, Listeners(eventType)[i]>>]
\* a message was parsed and handed to handleEvent
Handled == clientOp.op = "onmessage" /\ JSONparse(clientOp.arg) # <<>>
HandledType == typeOf(JSONparse(clientOp.arg)[1])
NoThrower == \A t \in ListenerTypes : ~emitThrows(t)
Filter(list, c) == SelectSeq(list, LAMBDA x : x # c)

\* C13: a message that parses and whose type is missing or is no kind of
\* event reaches no listener, the 'all' listeners included.
C13_ClosedKinds ==
  (Handled /\ HandledType \notin Kinds) => dispatched = <<>>

\* C14: for a message handed to handleEvent, every listener of the event's
\* type and then every 'all' listener is called, whether or not one throws.
C14_HandlerIsolation ==
  Handled => dispatched = AllCalls(HandledType) \o AllCalls("all")

\* C15: addEventListener puts the callback after those already registered
\* for the type and leaves the other types alone; a message's dispatch calls
\* the listeners of its type from the first on in the order of registration,
\* all of them when none throws.
C15_RegistrationOrder ==
  [][/\ clientOp'.op = "addEventListener" =>
          /\ eventListeners'[clientOp'.arg[1]] =
                Append(eventListeners[clientOp'.arg[1]], clientOp'.arg[2])
          /\ \A t \in ListenerTypes \ {clientOp'.arg[1]} :
                eventListeners'[t] = eventListeners[t]
     /\ (clientOp'.op = "onmessage" /\ JSONparse(clientOp'.arg) # <<>>) =>
          LET kind == typeOf(JSONparse(clientOp'.arg)[1])
              L == Listeners(kind)
              calls == SelectSeq(dispatched', LAMBDA x : x[1] = kind)
          IN /\ Len(calls) <= Len(L)
             /\ \A i \in 1..Len(calls) : calls[i] = <<kind, L[i]>>
             /\ (\A i \in 1..Len(L) : L[i] # BadCallback) => Len(calls) = Len(L)]_vars

\* C15 witness: two listeners of 'state' were registered, "handler" first,
\* and a state event called them in that order.
C15_Witness ==
  /\ Handled
  /\ HandledType = "state"
  /\ eventListeners["state"] = <<"handler", BadCallback>>
  /\ dispatched = <<<<"state", "handler">>, <<"state", BadCallback>>>>

\* C16: when no listener throws, every event dispatched (a message handed
\* to handleEvent, the connection event of onopen and of onclose) calls
\* every 'all' listener, after the listeners of its own type.
C16_AllReceivesEvery ==
  (NoThrower /\ (Handled \/ clientOp.op \in {"onopen", "onclose"})) =>
    /\ \A i \in 1..Len(Listeners("all")) :
          \E j \in 1..Len(dispatched) : dispatched[j] = <<"all", Listeners("all")[i]>>
    /\ \A j, k \in 1..Len(dispatched) :
          (dispatched[j][1] = "all" /\ dispatched[k][1] # "all") => k < j

\* C17: after removeEventListener(type, callback) the callback is in the
\* type's list no more, the other callbacks of the type keep their order
\* and the other types keep their lists.
C17_Unsubscribed ==
  [][clientOp'.op = "removeEventListener" =>
        LET t == clientOp'.arg[1]
            c == clientOp'.arg[2]
        IN /\ \A i \in 1..Len(eventListeners'[t]) : eventListeners'[t][i] # c
           /\ eventListeners'[t] = Filter(eventListeners[t], c)
           /\ \A u \in ListenerTypes \ {t} : eventListeners'[u] = eventListeners[u]]_vars

\* C18: sendTransaction and controlBlockchain, accepted or failed, leave the
\* cached state, reconnectAttempts and the listeners as they were; the
\* cached state changes in the step of a message or of a getState only.
C18_RequestsChangeNothing ==
  [][/\ clientOp'.op \in {"sendTransaction", "controlBlockchain"} =>
          UNCHANGED <<currentState, reconnectAttempts, eventListeners>>
     /\ currentState' # currentState => clientOp'.op \in {"onmessage", "getState"}]_vars

\* C18 witness: a sendTransaction was accepted while a state with balances
\* was cached and a listener was registered.
C18_Witness ==
  /\ clientOp.op = "sendTransaction"
  /\ clientOp.ret = "ok"
  /\ currentState # <<>>
  /\ "balances" \in DOMAIN currentState[1]
  /\ CountListeners > 0

\* the event types that the step recorded in op emitted
EmittedBy(op) ==
  IF op.op \in {"onopen", "onclose"} THEN {"connection"}
  ELSE IF op.op = "onmessage" /\ JSONparse(op.arg) # <<>>
    THEN {typeOf(JSONparse(op.arg)[1]), "all"}
  ELSE {}
Count(list, x) == Len(SelectSeq(list, LAMBDA y : y = x))

\* C34: when a handler unsubscribes itself while an event is dispatched,
\* every other handler that was registered for the event's type when the
\* dispatch started is called exactly once for that event.
C34_NoHandlerSkipped ==
  [][\A t \in EmittedBy(clientOp') : \A c \in DispatchCallbacks \ {OnceCallback} :
        Count(dispatched', <<t, c>>) = Count(Listeners(t), c)]_vars

\* C34 witness: a commit event was dispatched to the 'commit' listeners, the
\* self-removing one first; it was called and is registered no more, and the
\* handler registered after it was not called.
C34_Witness ==
  /\ Handled
  /\ HandledType = "commit"
  /\ dispatched = <<<<"commit", OnceCallback>>>>
  /\ eventListeners["commit"] = <<"handler">>

\* C35: the cached snapshot never goes back in time: the cached round and
\* block height never decrease, also when the response of an older
\* GET /state is delivered after a newer state event was cached.
C35_NeverBackInTime ==
  [][(currentState # <<>> /\ currentState' # <<>>) =>
        /\ currentState'[1].round >= currentState[1].round
        /\ currentState'[1].blockHeight >= currentState[1].blockHeight]_vars

\* C35 witness: a getState response was cached over a state of a later round
C35_Witness ==
  /\ clientOp.op = "getState"
  /\ prevState # <<>>
  /\ currentState # <<>>
  /\ prevState[1].round > currentState[1].round
  /\ server >= prevState[1].round

----------------------------------------------------------------------------
(* TransactionService.sendEcoCoins: properties *)

\* C19: every transaction document has an amount that is greater than 0 and
\* at most 1000.
C19_AmountValidated ==
  \A id \in TxIds : transactions[id].amount > 0 /\ transactions[id].amount <= 1000

\* C20: when sendEcoCoins ends with an error the call has created no
\* transaction document.
C20_NoRecordOnFailure ==
  (lastOp.op = "sendEcoCoins" /\ lastOp.ret # "ok") => lastOp.id \notin TxIds

\* C21: when sendEcoCoins ends because the forwarding failed, the
\* transaction it created is in a terminal status or a step that completes
\* it is pending (its completion timer), so it cannot stay as it is forever.
C21_NoStuckTransaction ==
  \A id \in TxIds :
    lastOp = Op("sendEcoCoins", id, "Failed to send transaction to blockchain network") =>
      \/ Terminal(transactions[id].status)
      \/ id \in completions
      \/ HasJob(id)

----------------------------------------------------------------------------
(* TransactionService.validateTransactionRequest: properties *)

Validated == validation # <<>>
Errors == validation[1].result.errors
Has(message) == \E i \in 1..Len(Errors) : Errors[i] = message
RecipientErrors == {"Recipient email is required", "Invalid email format"}
AmountErrors == {"Amount is required", "Amount must be greater than 0",
                 "Amount cannot exceed 1000 ECO Coins", "Amount must be a whole number"}

\* C22: the error list of a validated request has one error for each rule
\* the request violates (recipient well-formed, amount greater than 0, amount
\* at most 1000, amount a whole number), and the request is valid exactly
\* when the list is empty.
C22_AllRulesReported ==
  Validated =>
    LET request == validation[1].request IN
    /\ request.toUserEmail \in {"", BadEmail} => \E m \in RecipientErrors : Has(m)
    /\ request.amount <= 0 => (Has("Amount is required") \/ Has("Amount must be greater than 0"))
    /\ request.amount > 1000 * Tenths => Has("Amount cannot exceed 1000 ECO Coins")
    /\ request.amount % Tenths # 0 => Has("Amount must be a whole number")
    /\ validation[1].result.isValid <=> Errors = <<>>

\* C23: for a request with an empty recipient and an amount that is zero or
\* negative the result is returned with an error about the recipient and
\* another about the amount, and the call changes no transaction and no balance.
C23_EmptyRecipientNonPositive ==
  [][(validation' # validation /\ validation'[1].request.toUserEmail = ""
        /\ validation'[1].request.amount <= 0) =>
       LET errors == validation'[1].result.errors IN
       /\ \E i, j \in 1..Len(errors) :
             /\ errors[i] \in RecipientErrors
             /\ errors[j] \in AmountErrors
       /\ Len(errors) >= 2
       /\ ~validation'[1].result.isValid
       /\ UNCHANGED <<transactions, ecoCoins>>]_vars

\* C23 witness: the request with an empty recipient and amount -5 was
\* validated while a transaction was in the store, and two errors came back.
C23_Witness ==
  /\ Validated
  /\ validation[1].request = [toUserEmail |-> "", amount |-> -50]
  /\ Errors = <<"Recipient email is required", "Amount must be greater than 0">>
  /\ Len(transactions) > 0

----------------------------------------------------------------------------
(* BlockchainVerificationService.getVerificationStatus: properties *)

C24_WitnessInside ==
  /\ lastOp.op = "getVerificationStatus"
  /\ HasJob(lastOp.id)
  /\ lastOp.ret.progress \in 1..99
  /\ lastOp.ret.timeRemaining \in 1..(VERIFICATION_DELAY - 1)

(* The chain of CryptoLabPage: properties *)

\* the fields of a block other than its valid flag
Fields(block) == [id |-> block.id, prevV |-> block.prevV, rootV |-> block.rootV,
                  seq |-> block.seq, digestV |-> block.digestV]

\* C25: in every reachable state the chain is non-empty and its first block
\* has the constants of the genesis block: id 1, prevV 0.42, rootV 0.35,
\* seq 0, digestV 0.50.
C25_GenesisFirst ==
  /\ Len(blocks) >= 1
  /\ Fields(blocks[1]) = Fields(createGenesisBlock)

\* C25 in the state after handleTamperBlock(1): the first block is no longer
\* the genesis block.
C25_Witness ==
  /\ chainOp.op = "tamper" /\ chainOp.arg = 1
  /\ blocks[1].rootV = createGenesisBlock.rootV + Scale \div 10

\* C26: every step leaves the chain's blocks in place, appends one block at
\* the end whose prevV is the digestV of the block before it, or resets the
\* chain to the genesis block alone; and the ids of the chain are 1..n in
\* chain order.
C26_AppendOnly ==
  [][/\ \/ /\ Len(blocks') = Len(blocks)
            /\ \A i \in 1..Len(blocks) :
                 /\ blocks'[i].id = blocks[i].id
                 /\ blocks'[i].prevV = blocks[i].prevV
                 /\ blocks'[i].digestV = blocks[i].digestV
         \/ /\ Len(blocks') = Len(blocks) + 1
            /\ SubSeq(blocks', 1, Len(blocks)) = blocks
            /\ blocks'[Len(blocks')].prevV = blocks[Len(blocks)].digestV
         \/ blocks' = <<createGenesisBlock>>
     /\ \A i \in 1..Len(blocks') : blocks'[i].id = i]_vars

\* C26 in the state after the second of two add-block calls made from one
\* render has appended its block.
C26_Witness ==
  /\ chainOp.op = "append"
  /\ Len(blocks) = 3
  /\ blocks[2].id = blocks[3].id

\* C27: a step that re-verifies the chain leaves the length of the chain and
\* the id, prevV, rootV, seq and digestV of every block as they were.
C27_ReverifyFrame ==
  [][chainOp'.op = "reverify" =>
       /\ Len(blocks') = Len(blocks)
       /\ \A i \in 1..Len(blocks) : Fields(blocks'[i]) = Fields(blocks[i])]_vars

\* C27 in a state after a re-verification that changed the flag of the
\* genesis block and kept the flag of the block after it.
C27_Witness ==
  /\ chainOp.op = "reverify"
  /\ Len(blocks) >= 2
  /\ ~blocks[1].valid
  /\ blocks[2].valid

\* C28: re-verifying the chain that a re-verification left, with the same
\* policy center, gives the same chain; and a re-verification that follows
\* one with the same center, no step in between, changes no valid flag.
C28_ReverifyIdempotent ==
  [][chainOp'.op = "reverify" =>
       /\ verifyChain(blocks', chainOp'.arg) = blocks'
       /\ chainOp'.repeated => \A i \in 1..Len(blocks) : blocks'[i].valid = blocks[i].valid]_vars

\* C28 in a state after the second of two re-verifications in a row, on a
\* chain with a block flagged valid and a block flagged invalid.
C28_Witness ==
  /\ chainOp.op = "reverify"
  /\ chainOp.repeated
  /\ \E i, j \in 1..Len(blocks) : blocks[i].valid /\ ~blocks[j].valid

\* C29: a step of handleTamperBlock(blockId) keeps the length of the chain,
\* raises the rootV of a block with that id by 0.1 up to 1.0 and keeps its
\* other fields, and keeps every field of every other block; with no block
\* of that id the chain is unchanged.
C29_TamperFrame ==
  [][chainOp'.op = "tamper" =>
       /\ Len(blocks') = Len(blocks)
       /\ \A i \in 1..Len(blocks) :
            IF blocks[i].id = chainOp'.arg
              THEN /\ blocks'[i].rootV = Min(Scale, blocks[i].rootV + Scale \div 10)
                   /\ blocks'[i].id = blocks[i].id
                   /\ blocks'[i].prevV = blocks[i].prevV
                   /\ blocks'[i].seq = blocks[i].seq
                   /\ blocks'[i].digestV = blocks[i].digestV
                   /\ blocks'[i].valid = blocks[i].valid
              ELSE blocks'[i] = blocks[i]
       /\ (\A i \in 1..Len(blocks) : blocks[i].id # chainOp'.arg) => blocks' = blocks]_vars

\* C29 in a state after the tampering of the first of two blocks, flagged
\* valid: its rootV is raised from 0.35 to 0.45, its flag is kept, and the
\* prevV of its descendant is still its digestV.
C29_Witness ==
  /\ chainOp.op = "tamper" /\ chainOp.arg = 1
  /\ Len(blocks) = 2
  /\ blocks[1].rootV = createGenesisBlock.rootV + Scale \div 10
  /\ blocks[1].valid
  /\ blocks[2].prevV = blocks[1].digestV

\* C29 with a blockId that no block has.
C29_WitnessAbsent ==
  /\ chainOp.op = "tamper" /\ chainOp.arg = 2
  /\ Len(blocks) = 1

\* C29 at the clamp: a block whose rootV was 1.0 is tampered with.
C29_WitnessClamp ==
  /\ chainOp.op = "tamper" /\ chainOp.arg = 2
  /\ Len(blocks) = 2
  /\ blocks[2].rootV = Scale

\* the policy centers that a verdict is asked for: 0, 0.05, .. 1
Centers == {c * (Scale \div 20) : c \in 0..20}

\* C30: for every policy center, a block whose id is not the one tampered
\* with gets the same verdict of verifyBlock after the tampering as before.
C30_TamperLocal ==
  [][chainOp'.op = "tamper" =>
       \A center \in Centers : \A i \in 1..Len(blocks) :
         blocks[i].id # chainOp'.arg =>
           verifyBlock(blocks'[i], center) = verifyBlock(blocks[i], center)]_vars

\* C30 in a state after the tampering of block 2 of three: at center 0.6 the
\* verdict of block 2 is now invalid, the verdict of its descendant valid.
C30_Witness ==
  /\ chainOp.op = "tamper" /\ chainOp.arg = 2
  /\ Len(blocks) = 3
  /\ blocks[3].id = 3
  /\ ~verifyBlock(blocks[2], 6000)
  /\ verifyBlock([blocks[2] EXCEPT !.rootV = InputValue("C")], 6000)
  /\ verifyBlock(blocks[3], 6000)

(* The policy window: properties *)

\* C31: a call of isValidDigest returns true exactly when the digest is at
\* least max(0, min(1, center - width/2)) and at most
\* max(0, min(1, center + width/2)); for center 0.5 and width 0.3 the digests
\* 0.35 and 0.65 are accepted, 0.349999 and 0.650001 rejected.
C31_ClosedWindow ==
  windowCheck # <<>> =>
    LET call == windowCheck[1]
        half == call.policy.width \div 2
        lo == Max(0, Min(Millionths, call.policy.center - half))
        hi == Max(0, Min(Millionths, call.policy.center + half))
    IN /\ call.result <=> (lo <= call.digest /\ call.digest <= hi)
       /\ call.policy = [center |-> 500000, width |-> 300000] =>
            /\ call.digest \in {350000, 650000} => call.result
            /\ call.digest \in {349999, 650001} => ~call.result

\* C31 in the state after the digest 0.65 is accepted by the window of
\* center 0.5 and width 0.3.
C31_Witness ==
  /\ windowCheck # <<>>
  /\ windowCheck[1] = [digest |-> 650000, policy |-> [center |-> 500000, width |-> 300000],
                       result |-> TRUE]

\* C31 at a clamped bound: center 0.9 and width 0.5, the digest 1.0 accepted.
C31_WitnessClamped ==
  /\ windowCheck # <<>>
  /\ windowCheck[1] = [digest |-> 1000000, policy |-> [center |-> 900000, width |-> 500000],
                       result |-> TRUE]

(* The connection of the client: properties *)

\* C32: the close of a socket that disconnect() closed schedules no
\* reconnect: the step that delivers it leaves the pending reconnect timers
\* as they were.
C32_StaysDisconnected ==
  [][\A s \in 1..Len(sockets) :
       (sockets[s] = "closing" /\ sockets'[s] = "closed") =>
         reconnectTimers' = reconnectTimers]_vars

\* C32 in the state after that close: the caller has disconnected
\* (wsConnection is null though a socket was created) and a reconnect timer
\* is pending.
C32_Witness ==
  /\ clientOp.op = "onclose"
  /\ wsConnection = 0
  /\ Len(sockets) >= 1
  /\ reconnectTimers # <<>>

\* the sockets that are connecting or open
LiveSockets == {s \in 1..Len(sockets) : sockets[s] \in {"connecting", "open"}}

\* C33: the sockets that are connecting or open and the pending reconnect
\* timers are together at most one.
C33_OneConnection == Cardinality(LiveSockets) + Len(reconnectTimers) <= 1

\* C33 in a state with one connecting socket that a reconnect timer opened
\* after a failed construction, a close and a disconnect().
C33_Witness ==
  /\ clientOp.op = "reconnect"
  /\ Len(sockets) >= 3
  /\ sockets[1] = "closed"
  /\ Cardinality(LiveSockets) = 1
  /\ reconnectTimers = <<>>
  /\ reconnectAttempts >= 2

\* C36: while a staged flow is in progress (the status is not idle), a
\* further add-block, verify-chain or reset request leaves the chain, the
\* sequence counter and the status as they are, also when it is made before
\* the page has rendered the new status.
C36_FlowsExclusive ==
  [][(status # "idle" /\ (handleAddBlock \/ handleVerifyChain \/ handleReset)) =>
        UNCHANGED <<blocks, sequence, status>>]_vars

\* C36 witness: a reset made from the render that preceded an add-block
\* request took effect while the add-block flow was waiting
C36_Witness ==
  /\ chainOp.op = "reset"
  /\ status = "idle"
  /\ \E i \in 1..Len(flows) : flows[i].kind = "add"

\* the digest that an add-block flow proposes: computed from the head block,
\* the inputs, the sequence counter and the policy of the render it began in
Proposed(flow) ==
  calculateDigest(flow.closure.headDigestV, flow.closure.txRoot, flow.closure.sequence,
                  flow.closure.policy.center)
Accepted(flow) == isValidDigest(Proposed(flow), flow.closure.policy)

\* C37: an add-block flow that ends appends exactly one block, marked valid
\* and carrying the proposed digest, and raises the sequence counter by 1
\* when the proposed digest is within the policy window, and leaves the
\* chain and the counter alone when it is not; either way it sets the status
\* to idle. The chain grows in no other step.
C37_AddBlockOutcome ==
  [][/\ \A i \in 1..Len(flows) :
          (flows[i].kind = "add" /\ flows' = Remove(flows, i)) =>
             /\ status' = "idle"
             /\ IF Accepted(flows[i])
                  THEN /\ Len(blocks') = Len(blocks) + 1
                       /\ SubSeq(blocks', 1, Len(blocks)) = blocks
                       /\ blocks'[Len(blocks')].valid
                       /\ blocks'[Len(blocks')].digestV = Proposed(flows[i])
                       /\ sequence' = sequence + 1
                  ELSE UNCHANGED <<blocks, sequence>>
     /\ Len(blocks') > Len(blocks) =>
          \E i \in 1..Len(flows) :
             flows[i].kind = "add" /\ flows' = Remove(flows, i) /\ Accepted(flows[i])]_vars

\* C37 witness: an add-block flow was accepted and appended the second block
C37_Witness ==
  /\ chainOp.op = "append"
  /\ Len(blocks) = 2
  /\ blocks[2].valid
  /\ sequence = 2
  /\ status = "idle"

\* C37 witness: an add-block flow was rejected; the chain is the genesis block
\* and the counter is 1 still
C37_WitnessRejected ==
  /\ toastMessage # <<>>
  /\ toastMessage[1].text = "Invalid configuration - block not added"
  /\ Len(blocks) = 1
  /\ sequence = 1
  /\ status = "idle"
  /\ flows = <<>>

\* C38: processTransaction moves the amount of a transaction at most once:
\* the balances change only in a call on a pending transaction, which moves
\* the amount and leaves the transaction verifying; a call on a transaction
\* that is not pending (a second call among them) fails and changes no
\* balance and no status; no transaction becomes pending again.
C38_MovesOnce ==
  [][/\ ecoCoins' # ecoCoins =>
          \E id \in TxIds :
             /\ lastOp' = Op("processTransaction", id, "ok")
             /\ transactions[id].status = "pending"
             /\ transactions'[id].status = "verifying"
             /\ \A u \in Users :
                   ecoCoins'[u] = ecoCoins[u]
                     - (IF u = transactions[id].fromUserId THEN transactions[id].amount ELSE 0)
                     + (IF u = transactions[id].toUserId THEN transactions[id].amount ELSE 0)
     /\ \A id \in JobIds :
          (processTransaction(id) /\ (id \notin TxIds \/ transactions[id].status # "pending")) =>
             /\ lastOp'.ret # "ok"
             /\ UNCHANGED <<ecoCoins, transactions>>
     /\ \A id \in TxIds :
          transactions[id].status # "pending" => transactions'[id].status # "pending"]_vars

\* C38 witness: a second processTransaction of a transaction whose amount was
\* moved failed; the balances are those that the first call left
C38_Witness ==
  \E id \in TxIds :
    /\ lastOp = Op("processTransaction", id, "Transaction is not pending")
    /\ transactions[id].status = "verifying"
    /\ transactions[id].amount > 0
    /\ ecoCoins[transactions[id].fromUserId] = DefaultEcoCoins - transactions[id].amount
    /\ ecoCoins[transactions[id].toUserId] = DefaultEcoCoins + transactions[id].amount

TotalCoins ==
  LET RECURSIVE Sum(_)
      Sum(S) == IF S = {} THEN 0
                ELSE LET u == CHOOSE u \in S : TRUE IN ecoCoins[u] + Sum(S \ {u})
  IN Sum(Users)

\* C39: after every transfer, whatever amount was passed, no balance is
\* negative and the balances add up to 100 for each user created; a
\* transfer that fails for insufficient balance changes no balance.
C39_BalanceConservation ==
  [][/\ \A u \in Users : ecoCoins'[u] >= 0
     /\ TotalCoins' = DefaultEcoCoins * Cardinality(Users)
     /\ (lastOp'.op = "processTransaction" /\ lastOp'.ret = "Insufficient balance") =>
          ecoCoins' = ecoCoins]_vars

\* C39 witness: a transfer of a negative amount was processed and left the
\* recipient with a negative balance; the total is what it was
C39_Witness ==
  \E id \in TxIds :
    /\ lastOp = Op("processTransaction", id, "ok")
    /\ transactions[id].amount < 0
    /\ ecoCoins[transactions[id].toUserId] < 0
    /\ TotalCoins = DefaultEcoCoins * Cardinality(Users)

====
